---- MODULE Spec2Model ----
(***************************************************************************)
(* Text-to-structured-data pipeline of the discharge-summary dashboard:    *)
(* the phase classifier, section builder, section merger and event weight  *)
(* calculator of usePatientData.js, and the day enumeration and domain     *)
(* scoring of extractRiskTrend.js / extractReadinessGrid.js.               *)
(*                                                                         *)
(* Text is a sequence of atoms.  An atom is a run of characters that no    *)
(* regular expression or keyword of the program splits: every pattern of   *)
(* the program begins and ends on an atom boundary.  A JavaScript string   *)
(* is the concatenation of its atoms.                                      *)
(***************************************************************************)
EXTENDS Integers, Sequences, FiniteSets, TLC

\* ------------------------------------------------------------------ text

\* The capitalised atoms and their String.prototype.toLowerCase() images
\* (also the folding done by the /i flag).
CasePairs ==
  { <<"Patient Name", "patient name">>, <<"Age", "age">>, <<"Gender", "gender">>,
    <<"Admission Date", "admission date">>, <<"Discharge Date", "discharge date">>,
    <<"Discharge Disposition", "discharge disposition">>,
    <<"Comorbidities", "comorbidities">>, <<"Prior level", "prior level">>,
    <<"Self", "self">>, <<"Caregiving", "caregiving">>,
    <<"Primary Providers", "primary providers">>,
    <<"Consult to ", "consult to ">>, <<"Social work", "social work">>,
    <<"Overview", "overview">>,
    <<"Most Responsible Diagnosis", "most responsible diagnosis">>,
    <<"Hospital Course", "hospital course">>,
    <<"Patient with multiple medical problems", "patient with multiple medical problems">>,
    <<"Hospital Management", "hospital management">>,
    <<"Medical management", "medical management">>,
    <<"Pain management", "pain management">>,
    <<"Substance", "substance">>, <<" Abuse", " abuse">>, <<" Use", " use">>,
    <<"Wound", "wound">>, <<" Care", " care">>,
    <<"Chronic risk for constipation", "chronic risk for constipation">>,
    <<"Chronic Urinary incontinence", "chronic urinary incontinence">>,
    <<"Activities of Daily Living", "activities of daily living">>,
    <<"Functional ", "functional ">>,
    <<"Durable Medical Equipment", "durable medical equipment">>,
    <<"Feeding", "feeding">>, <<"Swallowing", "swallowing">>,
    <<"Risk for", "risk for">>, <<"Decreased", "decreased">>,
    <<"Impaired", "impaired">>, <<"Discipline", "discipline">>,
    <<"MD", "md">>, <<"RN", "rn">>, <<"PT", "pt">>, <<"OT", "ot">>,
    <<"SLP", "slp">>, <<"SW", "sw">>,
    <<"Discharge Plan", "discharge plan">>, <<"Skin", "skin">>,
    <<"Mobility", "mobility">>, <<"Communication", "communication">>,
    <<"Medication", "medication">>, <<"Education", "education">>,
    <<"Follow", "follow">>, <<"Up", "up">>, <<" Arrangements", " arrangements">>,
    <<"MOBILITY", "mobility">>, <<"Summary of ", "summary of ">>,
    <<"Lisinopril", "lisinopril">>, <<"J. Doe", "j. doe">>, <<"M", "m">>,
    <<"PT clinic arranged", "pt clinic arranged">>, <<"Notes", "notes">> }

\* String.prototype.toLowerCase on one atom.
LowerMap == [a \in {p[1] : p \in CasePairs} |-> (CHOOSE p \in CasePairs : p[1] = a)[2]]
LowerAtom(a) == IF a \in DOMAIN LowerMap THEN LowerMap[a] ELSE a

\* String.prototype.toLowerCase.
Lower(s) == [i \in 1..Len(s) |-> LowerAtom(s[i])]

\* The atoms of the characters U+2022 (bullet), U+2013 (en dash) and U+2014
\* (em dash).
Bullet == "(bullet)"
EnDash == "(en dash)"
EmDash == "(em dash)"

\* The atoms made of white space only (\s).
IsSpace(a) == a \in {" ", "\n"}

\* The atoms that begin with a non-word character: after a word, \b holds
\* in front of them.
NonWordStart ==
  {" ", "\n", ":", "-", "/", Bullet, EnDash, EmDash, " Abuse", " Use", " abuse", " use",
   " Arrangements", " arrangements", " assistance", " of function",
   " Care", " care"}

\* s begins with the atoms of p.
StartsWith(s, p) == Len(p) <= Len(s) /\ SubSeq(s, 1, Len(p)) = p

\* p occurs in s at position i.
OccursAt(s, p, i) == i >= 1 /\ i + Len(p) - 1 <= Len(s) /\ SubSeq(s, i, i + Len(p) - 1) = p

\* String.prototype.includes.
Includes(s, p) == \E i \in 1..(Len(s) + 1) : OccursAt(s, p, i)

\* String.prototype.trim: drop the white space at both ends.
RECURSIVE TrimLeft(_)
TrimLeft(s) == IF s # <<>> /\ IsSpace(Head(s)) THEN TrimLeft(Tail(s)) ELSE s

RECURSIVE TrimRight(_)
TrimRight(s) ==
  IF s # <<>> /\ IsSpace(s[Len(s)]) THEN TrimRight(SubSeq(s, 1, Len(s) - 1)) ELSE s

Trim(s) == TrimRight(TrimLeft(s))

\* A regular expression of the taxonomy: case-insensitive, a choice of
\* literal atom sequences, anchored at the start of the line (^) or not, and
\* anchored at its end ($) or not.
Re(anchored, alts) == [anchored |-> anchored, whole |-> FALSE, alts |-> alts]

\* The same, anchored at both ends (^...$).
ReWhole(alts) == [anchored |-> TRUE, whole |-> TRUE, alts |-> alts]

\* RegExp.prototype.test with the /i flag.
Test(re, s) ==
  \E t \in {Lower(s)}, p \in re.alts :
    IF re.whole THEN t = p
    ELSE IF re.anchored THEN StartsWith(t, p)
    ELSE Includes(t, p)

\* ------------------------------------------------------------ taxonomy

\* The white space a \s* of the program is given in the notes of the model.
Blanks == {<<>>, <<" ">>}

DisciplineRule ==
  Re(FALSE, { <<"discipline", ":">> \o ws \o <<d>> :
                ws \in Blanks, d \in {"md", "rn", "pt", "ot", "slp", "sw"} })

phases ==
  << [key |-> "patient_info", label |-> "Patient_info", order |-> -1,
      rules |-> << Re(TRUE, {<<"patient name">>}),
                   Re(TRUE, {<<"age", "/", "gender">>, <<"age", "gender">>}),
                   Re(TRUE, {<<"admission date">>}),
                   Re(TRUE, {<<"discharge date">>}),
                   Re(TRUE, {<<"discharge disposition">>}) >>],
     [key |-> "home", label |-> "Home", order |-> 0,
      rules |-> << Re(TRUE, {<<"comorbidities">>}),
                   Re(TRUE, {<<"prior level", " of function">>}),
                   Re(TRUE, {<<"self", "-", "care", "/", "caregiving">>,
                             <<"self", "care", "/", "caregiving">>,
                             <<"self", "-", "care", "caregiving">>,
                             <<"self", "care", "caregiving">>}),
                   Re(TRUE, {<<"primary providers">>}),
                   Re(TRUE, {<<"consult to ", "social work">>}) >>],
     [key |-> "er", label |-> "ER", order |-> 1,
      rules |-> << Re(TRUE, {<<"overview">>}),
                   Re(TRUE, {<<"most responsible diagnosis">>}),
                   Re(TRUE, {<<"hospital course">>}),
                   Re(TRUE, {<<"patient with multiple medical problems">>}) >>],
     [key |-> "unit", label |-> "Unit", order |-> 2,
      rules |-> << Re(TRUE, {<<"hospital management">>}),
                   Re(TRUE, {<<"medical management">>}),
                   Re(TRUE, {<<"pain management">>}),
                   Re(TRUE, {<<"substance", " abuse">>}),
                   Re(TRUE, {<<"wound", " care">>}),
                   Re(TRUE, {<<"chronic risk for constipation">>}),
                   Re(TRUE, {<<"chronic urinary incontinence">>}),
                   Re(TRUE, {<<"activities of daily living", "/", "functional ", "mobility">>,
                             <<"activities of daily living", "functional ", "mobility">>}),
                   Re(TRUE, {<<"durable medical equipment">>}),
                   Re(TRUE, {<<"feeding", "/", "swallowing">>}),
                   Re(TRUE, {<<"risk for", " ">>}),
                   Re(TRUE, {<<"decreased", " ">>}),
                   Re(TRUE, {<<"impaired", " ">>}),
                   DisciplineRule >>],
     [key |-> "discharge", label |-> "Discharge", order |-> 3,
      rules |-> << Re(TRUE, {<<"discharge plan">>}),
                   Re(TRUE, {<<"substance", " use">>}),
                   Re(TRUE, {<<"skin", "/", "wound", " care">>}),
                   Re(TRUE, {<<"mobility">>}),
                   Re(TRUE, {<<"swallowing">>}),
                   Re(TRUE, {<<"communication">>}),
                   Re(TRUE, {<<"medication", " assistance">>}),
                   Re(TRUE, {<<"education">>}) >>],
     [key |-> "back_home", label |-> "Back_Home", order |-> 4,
      rules |-> << Re(TRUE, {<<"follow", "-", "up", " arrangements">>,
                             <<"follow", "up", " arrangements">>}),
                   Re(TRUE, {<<"medication", "s">>}) >>] >>

PhaseKeys == {phases[i].key : i \in 1..Len(phases)}

\* Array.prototype.some over the rules of one phase, left to right.
RECURSIVE SomeRule(_, _, _)
SomeRule(rules, line, i) ==
  IF i > Len(rules) THEN FALSE
  ELSE IF Test(rules[i], line) THEN TRUE
  ELSE SomeRule(rules, line, i + 1)

\* FindPhase with the search running from the last phase to the first
\* (findLast for find).
RECURSIVE FindPhaseLast(_, _, _)
FindPhaseLast(phs, line, i) ==
  IF i > Len(phs) THEN 0
  ELSE IF SomeRule(phs[Len(phs) + 1 - i].rules, line, 1) THEN Len(phs) + 1 - i
  ELSE FindPhaseLast(phs, line, i + 1)

\* Array.prototype.find over a taxonomy: the index of the first phase one of
\* whose rules matches the line, 0 when there is none.
RECURSIVE FindPhase(_, _, _)
FindPhase(phs, line, i) ==
  IF i > Len(phs) THEN 0
  ELSE IF SomeRule(phs[i].rules, line, 1) THEN i
  ELSE FindPhase(phs, line, i + 1)

\* if (hit) return hit.key, and the fallback if nothing matched; hit is the
\* index FindPhase returned.
KeyOrFallback(phs, hit, line) ==
  IF hit # 0 THEN phs[hit].key
  ELSE IF Test(Re(FALSE, {<<"hospital management">>}), line) THEN "unit" ELSE "home"

\* ClassifyIn with the fallback pattern anchored at the start of the line.
ClassifyInAnchoredFallback(phs, line) ==
  IF FindPhase(phs, line, 1) # 0 THEN KeyOrFallback(phs, FindPhase(phs, line, 1), line)
  ELSE IF Test(Re(TRUE, {<<"hospital management">>}), line) THEN "unit" ELSE "home"

\* classify, over a given taxonomy.
ClassifyIn(phs, line) == KeyOrFallback(phs, FindPhase(phs, line, 1), line)

classify(line) == ClassifyIn(phases, line)

\* ------------------------------------------------------ section builder

\* String.prototype.split(/\n+/), then trim on every piece and
\* filter(Boolean): the non-empty trimmed lines of the text.
RECURSIVE SplitLines(_, _, _)
SplitLines(text, cur, acc) ==
  LET flush == IF Trim(cur) = <<>> THEN acc ELSE Append(acc, Trim(cur)) IN
  IF text = <<>> THEN flush
  ELSE IF Head(text) = "\n" THEN SplitLines(Tail(text), <<>>, flush)
  ELSE SplitLines(Tail(text), Append(cur, Head(text)), acc)

Lines(text) == SplitLines(text, <<>>, <<>>)

HospitalManagementHeader == Re(TRUE, {<<"hospital management">>})
ExpansionTerminator ==
  Re(TRUE, {<<"discharge plan">>, <<"follow", "-", "up">>, <<"follow", "up">>,
            <<"medication", "s">>})
HasColon(l) == \E i \in 1..Len(l) : l[i] = ":"

\* Absorb without the assignment i = j: the outer loop goes on from the line
\* after the header.
RECURSIVE AbsorbKeepsIndex(_, _, _, _)
AbsorbKeepsIndex(lines, j, expanded, i) ==
  IF j > Len(lines) THEN [expanded |-> expanded, i |-> i]
  ELSE IF Test(ExpansionTerminator, lines[j]) THEN [expanded |-> expanded, i |-> i]
  ELSE IF ~HasColon(lines[j]) THEN [expanded |-> expanded, i |-> i]
  ELSE AbsorbKeepsIndex(lines, j + 1, Append(expanded, lines[j]), i)

\* The inner loop of the expansion: from line j on, push every line up to
\* the first terminator header or line without a colon; i follows j.
RECURSIVE Absorb(_, _, _, _)
Absorb(lines, j, expanded, i) ==
  IF j > Len(lines) THEN [expanded |-> expanded, i |-> i]
  ELSE IF Test(ExpansionTerminator, lines[j]) THEN [expanded |-> expanded, i |-> i]
  ELSE IF ~HasColon(lines[j]) THEN [expanded |-> expanded, i |-> i]
  ELSE Absorb(lines, j + 1, Append(expanded, lines[j]), j)

\* The outer loop of the expansion.
RECURSIVE Expand(_, _, _)
Expand(lines, i, expanded) ==
  IF i > Len(lines) THEN expanded
  ELSE IF Test(HospitalManagementHeader, lines[i])
       THEN LET r == Absorb(lines, i + 1, Append(expanded, lines[i]), i)
            IN Expand(lines, r.i + 1, r.expanded)
       ELSE Expand(lines, i + 1, Append(expanded, lines[i]))

headersNoColon == <<ReWhole({<<"most responsible diagnosis">>})>>
attachToPrev == <<Re(TRUE, {<<"consult to ", "social work">>})>>

EntersDischargePlan == Re(TRUE, {<<"discharge plan">>})
LeavesDischargePlan ==
  Re(TRUE, {<<"follow", "-", "up", " arrangements">>, <<"follow", "up", " arrangements">>,
            <<"medication", "s">>})

\* The override patterns of a header line, and of an ordinary line.
HeaderOverride ==
  Re(TRUE, {<<"risk for">>, <<"decreased">>, <<"impaired">>, <<"mobility">>,
            <<"swallowing">>, <<"communication">>, <<"skin", "/", "wound", " care">>,
            <<"education">>})
\* LineOverride with the shorter list of the header line.
LineOverrideAsHeader == HeaderOverride

LineOverride ==
  Re(TRUE, HeaderOverride.alts \cup {<<"substance", " use">>, <<"medication", " assistance">>})

\* replace(/^[-]\s*/, ""): drop a leading dash and the white space after it.
StripDash(s) ==
  IF s # <<>> /\ Head(s) \in {"-", EnDash, EmDash} THEN TrimLeft(Tail(s)) ELSE s

\* line.match(/^([^:]+):\s*(.*)$/): the position of the first colon when at
\* least one character stands before it, 0 when the line does not match.
ColonAt(l) ==
  IF \E i \in 2..Len(l) : l[i] = ":" /\ \A j \in 1..(i - 1) : l[j] # ":"
  THEN CHOOSE i \in 2..Len(l) : l[i] = ":" /\ \A j \in 1..(i - 1) : l[j] # ":"
  ELSE 0

SecId(n) == "sec_" \o ToString(n)

\* inDischargePlan after the two tests at the top of the row loop.
InDischargePlan(l, inDischargePlan) ==
  IF Test(LeavesDischargePlan, l) THEN FALSE
  ELSE IF Test(EntersDischargePlan, l) THEN TRUE
  ELSE inDischargePlan

\* HeaderRow with the next line taken as it is, dash included.
HeaderRowKeepsDash(expanded, i, inDischargePlan, rows) ==
  [id |-> SecId(Len(rows) + 1),
   phase |-> IF inDischargePlan /\ Test(HeaderOverride, expanded[i])
             THEN "discharge" ELSE classify(expanded[i]),
   label |-> Trim(expanded[i]),
   content |-> Trim(IF i + 1 <= Len(expanded) THEN expanded[i + 1] ELSE <<>>)]

\* The row of a special header, whose value is on the next line.
HeaderRow(expanded, i, inDischargePlan, rows) ==
  [id |-> SecId(Len(rows) + 1),
   phase |-> IF inDischargePlan /\ Test(HeaderOverride, expanded[i])
             THEN "discharge" ELSE classify(expanded[i]),
   label |-> Trim(expanded[i]),
   content |-> Trim(StripDash(IF i + 1 <= Len(expanded) THEN expanded[i + 1] ELSE <<>>))]

\* The row of an ordinary line l; k is ColonAt(l), so that m[1] is the text
\* before position k and m[2] the text after it.
LineRow(l, k, inDischargePlan, rows) ==
  [id |-> SecId(Len(rows) + 1),
   phase |-> IF inDischargePlan
                /\ Test(LineOverride, IF k # 0 THEN SubSeq(l, 1, k - 1) ELSE l)
             THEN "discharge" ELSE classify(l),
   label |-> IF k # 0 THEN Trim(SubSeq(l, 1, k - 1)) ELSE l,
   content |-> IF k # 0 THEN Trim(TrimLeft(SubSeq(l, k + 1, Len(l)))) ELSE l]

\* AttachTo with the line appended without the space.
AttachToUnspaced(rows, l) ==
  [rows EXCEPT ![Len(rows)].content = @ \o Trim(l)]

\* rows[rows.length - 1].content += " " + line.trim()
AttachTo(rows, l) ==
  [rows EXCEPT ![Len(rows)].content = @ \o <<" ">> \o Trim(l)]

\* The row loop of sectionsRaw, from line i on; RowTurn is the turn of line
\* i after the update of inDischargePlan.
RECURSIVE BuildRows(_, _, _, _)
RowTurn(expanded, i, inDischargePlan, rows) ==
  IF SomeRule(headersNoColon, expanded[i], 1)
  THEN BuildRows(expanded, i + 2, inDischargePlan,
                 Append(rows, HeaderRow(expanded, i, inDischargePlan, rows)))
  ELSE IF SomeRule(attachToPrev, expanded[i], 1) /\ rows # <<>>
  THEN BuildRows(expanded, i + 1, inDischargePlan, AttachTo(rows, expanded[i]))
  ELSE BuildRows(expanded, i + 1, inDischargePlan,
                 Append(rows, LineRow(expanded[i], ColonAt(expanded[i]),
                                      inDischargePlan, rows)))

\* BuildRows with the loop beginning at the second line.
BuildRowsFromSecond(expanded, i, inDischargePlan, rows) ==
  IF i > Len(expanded) THEN rows
  ELSE IF i = 1 THEN BuildRows(expanded, 2, inDischargePlan, rows)
  ELSE RowTurn(expanded, i, InDischargePlan(expanded[i], inDischargePlan), rows)

BuildRows(expanded, i, inDischargePlan, rows) ==
  IF i > Len(expanded) THEN rows
  ELSE RowTurn(expanded, i, InDischargePlan(expanded[i], inDischargePlan), rows)

\* The sectionsRaw memo.
SectionsRaw(raw) ==
  IF raw = <<>> THEN <<>>
  ELSE BuildRows(Expand(Lines(raw), 1, <<>>), 1, FALSE, <<>>)

\* The turns of the row loop, in order: for every line the loop visits, its
\* position in expanded, inDischargePlan after the two tests at the top of
\* the turn, and whether the turn pushes a row.  A line taken as the value
\* of a special header is not visited (i++).
RECURSIVE Visits(_, _, _, _)
VisitTurn(expanded, i, inDischargePlan, log) ==
  IF SomeRule(headersNoColon, expanded[i], 1)
  THEN Visits(expanded, i + 2, inDischargePlan,
              Append(log, [at |-> i, inDischargePlan |-> inDischargePlan, row |-> TRUE]))
  ELSE IF SomeRule(attachToPrev, expanded[i], 1) /\ \E v \in 1..Len(log) : log[v].row
  THEN Visits(expanded, i + 1, inDischargePlan,
              Append(log, [at |-> i, inDischargePlan |-> inDischargePlan, row |-> FALSE]))
  ELSE Visits(expanded, i + 1, inDischargePlan,
              Append(log, [at |-> i, inDischargePlan |-> inDischargePlan, row |-> TRUE]))

Visits(expanded, i, inDischargePlan, log) ==
  IF i > Len(expanded) THEN log
  ELSE VisitTurn(expanded, i, InDischargePlan(expanded[i], inDischargePlan), log)

\* ------------------------------------------------------- section merger

\* MedicationsLabel with the pattern /^\s*Medication\b/i, the optional s
\* left out.
MedicationsLabelSingular(label) ==
  \E t \in {Lower(Trim(label))} :
    /\ t # <<>>
    /\ t[1] = "medication"
    /\ (Len(t) < 2 \/ t[2] \in NonWordStart)

\* /^\s*Medications?\b/i on the trimmed label.
MedicationsLabel(label) ==
  \E t \in {Lower(Trim(label))} :
    /\ t # <<>>
    /\ t[1] = "medication"
    /\ \/ Len(t) < 2
       \/ t[2] \in NonWordStart
       \/ (t[2] = "s" /\ (Len(t) < 3 \/ t[3] \in NonWordStart))

\* items.map(d => `(bullet) ${d.label}: ${d.content}`).join("\n")
RECURSIVE Bullets(_, _)
Bullets(items, i) ==
  IF i > Len(items) THEN <<>>
  ELSE (IF i > 1 THEN <<"\n">> ELSE <<>>)
       \o <<Bullet, " ">> \o items[i].label \o <<":", " ">> \o items[i].content
       \o Bullets(items, i + 1)

\* MergedOf without the rule that patient info never contributes weight.
MergedOfCountsPatientInfo(rows, p) ==
  LET items == SelectSeq(rows, LAMBDA d : d.phase = p.key)
      hasMeds == p.key = "back_home"
                 /\ \E i \in 1..Len(items) : MedicationsLabel(items[i].label)
  IN IF Len(items) = 0 THEN <<>>
     ELSE << [id |-> "merged_" \o p.key, phase |-> p.key, label |-> p.label,
              content |-> Bullets(items, 1), count |-> Len(items), hasMeds |-> hasMeds] >>

\* MergedOf with hasMeds set for a Medications row of any phase.
MergedOfMedsAnyPhase(rows, p) ==
  LET items == SelectSeq(rows, LAMBDA d : d.phase = p.key)
      count == IF p.key = "patient_info" \/ p.key = "nah" THEN 0 ELSE Len(items)
      hasMeds == \E i \in 1..Len(items) : MedicationsLabel(items[i].label)
  IN IF Len(items) = 0 THEN <<>>
     ELSE << [id |-> "merged_" \o p.key, phase |-> p.key, label |-> p.label,
              content |-> Bullets(items, 1), count |-> count, hasMeds |-> hasMeds] >>

\* MergedOf without the test that skips a phase that has no row.
MergedOfKeepsEmpty(rows, p) ==
  LET items == SelectSeq(rows, LAMBDA d : d.phase = p.key)
      count == IF p.key = "patient_info" \/ p.key = "nah" THEN 0 ELSE Len(items)
      hasMeds == p.key = "back_home"
                 /\ \E i \in 1..Len(items) : MedicationsLabel(items[i].label)
  IN << [id |-> "merged_" \o p.key, phase |-> p.key, label |-> p.label,
         content |-> Bullets(items, 1), count |-> count, hasMeds |-> hasMeds] >>

\* One turn of the loop over the phases: the merged section of phase p, or
\* nothing when the phase has no row.
MergedOf(rows, p) ==
  LET items == SelectSeq(rows, LAMBDA d : d.phase = p.key)
      count == IF p.key = "patient_info" \/ p.key = "nah" THEN 0 ELSE Len(items)
      hasMeds == p.key = "back_home"
                 /\ \E i \in 1..Len(items) : MedicationsLabel(items[i].label)
  IN IF Len(items) = 0 THEN <<>>
     ELSE << [id |-> "merged_" \o p.key, phase |-> p.key, label |-> p.label,
              content |-> Bullets(items, 1), count |-> count, hasMeds |-> hasMeds] >>

RECURSIVE MergeFrom(_, _)
MergeFrom(rows, i) ==
  IF i > Len(phases) THEN <<>>
  ELSE MergedOf(rows, phases[i]) \o MergeFrom(rows, i + 1)

\* The sections memo.
Sections(rows) == IF Len(rows) = 0 THEN <<>> ELSE MergeFrom(rows, 1)

\* ------------------------------------------------- the parser of the export

\* The rows of parseSectionsFromText: the split of the text as it was
\* fetched, the expansion and the row loop, which the export repeats word
\* for word, with its own copy of the taxonomy and of classify.
ExportRows(dischargeText) ==
  BuildRows(Expand(Lines(dischargeText), 1, <<>>), 1, FALSE, <<>>)

\* ExportMergedOf without the rule that sets the count of patient_info to 0.
ExportMergedOfCountsPatientInfo(rows, p) ==
  LET items == SelectSeq(rows, LAMBDA d : d.phase = p.key)
  IN IF Len(items) = 0 THEN <<>>
     ELSE << [id |-> "merged_" \o p.key, phase |-> p.key, label |-> p.label,
              content |-> Bullets(items, 1), count |-> Len(items)] >>

\* One turn of the loop over the phases in the export: byPhase is a Map
\* filled in the order of the rows, read by the key of the phase.
ExportMergedOf(rows, p) ==
  LET items == SelectSeq(rows, LAMBDA d : d.phase = p.key)
      count == IF p.key = "patient_info" THEN 0 ELSE Len(items)
  IN IF Len(items) = 0 THEN <<>>
     ELSE << [id |-> "merged_" \o p.key, phase |-> p.key, label |-> p.label,
              content |-> Bullets(items, 1), count |-> count] >>

RECURSIVE ExportMergeFrom(_, _)
ExportMergeFrom(rows, i) ==
  IF i > Len(phases) THEN <<>>
  ELSE ExportMergedOf(rows, phases[i]) \o ExportMergeFrom(rows, i + 1)

\* parseSectionsFromText: no section of an empty text, else the merge of
\* the rows.
parseSectionsFromText(dischargeText) ==
  IF dischargeText = <<>> THEN <<>>
  ELSE ExportMergeFrom(ExportRows(dischargeText), 1)

\* ---------------------------------------------------------- event weights

Max(a, b) == IF a >= b THEN a ELSE b
Min(a, b) == IF a <= b THEN a ELSE b

\* /(?:^|\n)(bullet)\s*Discharge\s*Plan:\s*Discharge\s*Plan\b/i on the content.
GenericHeaderBullet(content) ==
  \E t \in {Lower(content)} :
    \E i \in 1..Len(t) :
      /\ i = 1 \/ t[i - 1] = "\n"
      /\ \E p \in { <<Bullet>> \o ws1 \o <<"discharge plan", ":">> \o ws2
                       \o <<"discharge plan">> : ws1 \in Blanks, ws2 \in Blanks } :
           /\ OccursAt(t, p, i)
           /\ (i + Len(p) > Len(t) \/ t[i + Len(p)] \in NonWordStart)

\* /^Discharge\s*Plan$/i
DischargePlanOnly(s) == Lower(s) = <<"discharge plan">>

\* weightFor with the Medications bullet subtracted from the baseline of
\* back_home whether or not the section has one.
weightForAlwaysSubtracts(s, includeMeds) ==
  IF s.phase = "patient_info" \/ s.phase = "nah" THEN 0
  ELSE IF s.phase = "back_home"
       THEN IF includeMeds THEN s.count ELSE Max(0, s.count - 1)
  ELSE IF s.phase = "discharge"
       THEN LET genericHeader ==
                  \/ GenericHeaderBullet(s.content)
                  \/ (DischargePlanOnly(<<s.label>>) /\ DischargePlanOnly(s.content))
            IN Max(0, s.count - (IF genericHeader THEN 1 ELSE 0))
  ELSE s.count

\* weightFor with one taken off the weight of discharge for every bullet of
\* the content, the first one included, that begins with Discharge Plan.
weightForSubtractsEach(s, includeMeds) ==
  IF s.phase = "patient_info" \/ s.phase = "nah" THEN 0
  ELSE IF s.phase = "back_home"
       THEN IF includeMeds THEN s.count
            ELSE Max(0, s.count - (IF s.hasMeds THEN 1 ELSE 0))
  ELSE IF s.phase = "discharge"
       THEN Max(0, s.count - Cardinality({i \in 1..Len(s.content) :
                                            /\ s.content[i] = Bullet
                                            /\ OccursAt(Lower(s.content),
                                                        <<" ", "discharge plan", ":">>, i + 1)}))
  ELSE s.count

weightFor(s, includeMeds) ==
  IF s.phase = "patient_info" \/ s.phase = "nah" THEN 0
  ELSE IF s.phase = "back_home"
       THEN IF includeMeds THEN s.count
            ELSE Max(0, s.count - (IF s.hasMeds THEN 1 ELSE 0))
  ELSE IF s.phase = "discharge"
       THEN LET genericHeader ==
                  \/ GenericHeaderBullet(s.content)
                  \/ (DischargePlanOnly(<<s.label>>) /\ DischargePlanOnly(s.content))
            IN Max(0, s.count - (IF genericHeader THEN 1 ELSE 0))
  ELSE s.count

\* Object.fromEntries(phases.map(p => [p.key, p.order ?? 0]))
order == [k \in PhaseKeys |-> (CHOOSE i \in 1..Len(phases) : phases[i].key = k)]
OrderOf(k) == IF k \in PhaseKeys THEN phases[order[k]].order ELSE 0

\* buildEvents with a header bullet taken off every weight and no clamp.
buildEventsUnclamped(secs, includeMeds) ==
  [i \in 1..Len(secs) |->
     [id |-> secs[i].id, phase |-> secs[i].phase, phaseLabel |-> secs[i].label,
      text |-> <<secs[i].label, "\n">> \o secs[i].content,
      value |-> weightFor(secs[i], includeMeds) - 1,
      idx |-> 0,
      ts |-> OrderOf(secs[i].phase) * 1000]]

\* buildEvents with ts taken from the place of the phase in the list of
\* phases, counted from 0, in place of its order field.
buildEventsTsByIndex(secs, includeMeds) ==
  [i \in 1..Len(secs) |->
     [id |-> secs[i].id, phase |-> secs[i].phase, phaseLabel |-> secs[i].label,
      text |-> <<secs[i].label, "\n">> \o secs[i].content,
      value |-> Max(0, weightFor(secs[i], includeMeds)),
      idx |-> 0,
      ts |-> (order[secs[i].phase] - 1) * 1000]]

\* buildEvents
buildEvents(secs, includeMeds) ==
  [i \in 1..Len(secs) |->
     [id |-> secs[i].id, phase |-> secs[i].phase, phaseLabel |-> secs[i].label,
      text |-> <<secs[i].label, "\n">> \o secs[i].content,
      value |-> Max(0, weightFor(secs[i], includeMeds)),
      idx |-> 0,
      ts |-> OrderOf(secs[i].phase) * 1000]]

\* Events with one event for every phase of the taxonomy, of value 0 where
\* the phase has no section.
EventsPerPhase(secs, includeMeds) ==
  [i \in 1..Len(phases) |->
     IF \E j \in 1..Len(secs) : secs[j].phase = phases[i].key
     THEN buildEvents(secs, includeMeds)[CHOOSE j \in 1..Len(secs) :
                                           secs[j].phase = phases[i].key]
     ELSE [id |-> "merged_" \o phases[i].key, phase |-> phases[i].key,
           phaseLabel |-> phases[i].label, text |-> <<phases[i].label, "\n">>,
           value |-> 0, idx |-> 0, ts |-> phases[i].order * 1000]]

\* The events and eventsWithMeds memos.
Events(secs, includeMeds) ==
  IF Len(secs) # 0 THEN buildEvents(secs, includeMeds) ELSE <<>>

\* ------------------------------------------------------ day enumeration

\* The largest number written in a note of the model.
MaxNumber == 70

\* The atoms that are runs of digits (\d+), and Number() of such an atom.
NumberAtoms == {ToString(n) : n \in 0..MaxNumber}
Number(a) == CHOOSE n \in 0..MaxNumber : ToString(n) = a

\* The position after the white space that starts at i (\s*).
RECURSIVE SkipSpaces(_, _)
SkipSpaces(t, i) == IF i <= Len(t) /\ IsSpace(t[i]) THEN SkipSpaces(t, i + 1) ELSE i

\* text.match(/<key>:\s*(\d+\/\d+)/i) succeeds at position i.
DateMatchAt(t, key, i) ==
  /\ OccursAt(t, <<key, ":">>, i)
  /\ LET j == SkipSpaces(t, i + 2)
     IN /\ j + 2 <= Len(t)
        /\ t[j] \in NumberAtoms /\ t[j + 1] = "/" /\ t[j + 2] \in NumberAtoms

\* What stands for the null of a failed match.
NoMatch == [month |-> -1, day |-> -1]

\* The smallest position of a non-empty set of positions.
First(S) == CHOOSE h \in S : \A g \in S : h <= g

\* parseDate of the group of the match at position i of the text t.
ParseDateAt(t, i) ==
  [month |-> Number(t[SkipSpaces(t, i + 2)]), day |-> Number(t[SkipSpaces(t, i + 2) + 2])]

\* The first match of the date pattern in the lower-case text t and
\* parseDate of its group, or NoMatch.
MatchIn(t, key) ==
  IF \A i \in 1..Len(t) : ~DateMatchAt(t, key, i) THEN NoMatch
  ELSE ParseDateAt(t, First({i \in 1..Len(t) : DateMatchAt(t, key, i)}))

\* MatchDate with 1/1 for a date that is not found, in place of the null the
\* caller tests.
MatchDateOrNewYear(text, key) ==
  IF MatchIn(Lower(text), key) = NoMatch THEN [month |-> 1, day |-> 1]
  ELSE MatchIn(Lower(text), key)

\* text.match(/<key>:\s*(\d+\/\d+)/i) and parseDate of its group: the
\* record of month and day, or NoMatch.
MatchDate(text, key) == MatchIn(Lower(text), key)

\* daysInMonth
days == <<31, 29, 31, 30, 31, 30, 31, 31, 30, 31, 30, 31>>
\* daysInMonth with the table read at month in place of month - 1.
daysInMonthZeroBased(month) == IF month + 1 \in 1..Len(days) THEN days[month + 1] ELSE 31

daysInMonth(month) == IF month \in 1..Len(days) THEN days[month] ELSE 31

\* `${currentMonth}/${currentDay}`
DateString(month, day) == ToString(month) \o "/" \o ToString(day)

\* LoopCondition with the months compared and the days left out.
LoopConditionMonthOnly(cm, cd, e) == cm <= e.month

\* The condition of the while loop.
LoopCondition(cm, cd, e) == cm < e.month \/ (cm = e.month /\ cd <= e.day)

\* NextCounters with the overflow test currentDay >= daysInMonth.
NextCountersEarlyOverflow(cm, cd) ==
  IF cd + 1 >= daysInMonth(cm) THEN [month |-> cm + 1, day |-> 1]
  ELSE [month |-> cm, day |-> cd + 1]

\* The counters after currentDay++ and the month overflow.
NextCounters(cm, cd) ==
  IF cd + 1 > daysInMonth(cm) THEN [month |-> cm + 1, day |-> 1]
  ELSE [month |-> cm, day |-> cd + 1]

\* The safety check that breaks out of the loop.
SafetyBreak(cm, cd, e) == cm > 12 \/ (cm > e.month /\ cd > e.day)

\* ------------------------------------------------------- domain scoring

\* The group (.*?) that begins at position b of the lower-case text t: up
\* to the first <to> at or after b, or to the end of the text.
GroupFrom(t, b, to) ==
  IF \A j \in b..Len(t) : \A p \in to : ~OccursAt(t, p, j) THEN SubSeq(t, b, Len(t))
  ELSE SubSeq(t, b, First({j \in b..Len(t) : \E p \in to : OccursAt(t, p, j)}) - 1)

\* The group of the match whose <from> stands at position i: it begins
\* after <from> and its colon (:?).
GroupAfter(t, i, to) ==
  GroupFrom(t, IF i + 1 <= Len(t) /\ t[i + 1] = ":" THEN i + 2 ELSE i + 1, to)

\* The same over the lower-case text t.
ExcerptIn(t, from, to) ==
  IF \A i \in 1..Len(t) : t[i] # from THEN <<>>
  ELSE GroupAfter(t, First({i \in 1..Len(t) : t[i] = from}), to)

\* dischargeText.match(/<from>:?(.*?)(?:<to 1>|<to 2>|...|$)/is), its group
\* in lower case: the text after the first <from> and its colon, up to the
\* first <to> that follows or to the end; empty when <from> is absent.
Excerpt(text, from, to) == ExcerptIn(Lower(text), from, to)

\* The four texts the keyword tests read.
Texts(dischargeText) ==
  [all |-> Lower(dischargeText),
   mgmt |-> Excerpt(dischargeText, "hospital management", {<<"discharge plan">>}),
   dcPlan |-> Excerpt(dischargeText, "discharge plan",
                      {<<"follow", "-", "up">>, <<"education">>, <<"medication", "s">>}),
   course |-> Excerpt(dischargeText, "hospital course",
                      {<<"prior level">>, <<"self", "-", "care">>})]

\* One of the keywords occurs in the text.
AnyOf(txt, kws) == \E k \in kws : Includes(txt, k)

\* Math.round(a / b) for a >= 0 and b > 0.
RoundDiv(a, b) == (2 * a + b) \div (2 * b)

\* The products progress * k whose exact value ends in 5 hundredths and whose
\* IEEE double lies below it: Math.round(riskScore * 10) rounds them down.
\* These are all such products for stays of up to 400 days.
LostTie(k, n, d) ==
  \/ (k = 15 /\ (10 * n = 7 * d \/ 30 * n = 11 * d))
  \/ (k = 25 /\ 50 * n = 47 * d)

domains == <<"Mobility", "WoundCare", "MedicalStability", "Swallowing", "Education",
             "SocialSupport">>

\* RiskProgress with the progress of the readiness extractor: 0 on the
\* admission day, 1 on the last day.
RiskProgressForward(dayIndex, totalDays) ==
  [n |-> dayIndex, d |-> Max(1, totalDays - 1)]

\* progress of getRiskLevel, as the fraction n / d: 1 on the admission day, 0
\* on the last day.
RiskProgress(dayIndex, totalDays) ==
  [n |-> totalDays - 1 - dayIndex, d |-> Max(1, totalDays - 1)]

\* getRiskLevel with the score of the last branch for every domain, the days
\* left in place of progress, and no clamp.
getRiskLevelDaysLeft(T, domain, dayIndex, totalDays) == 20 * (totalDays - 1 - dayIndex)

\* getRiskLevel, in tenths.  progress is n / d; a score x of the source is
\* 10 * x here, and the final Math.round(riskScore * 10) / 10 is the rounding
\* of the two computed scores progress * k and progress * k + c.
getRiskLevel(T, domain, dayIndex, totalDays) ==
  LET n == RiskProgress(dayIndex, totalDays).n
      d == RiskProgress(dayIndex, totalDays).d
      gt(c) == 100 * n > c * d        \* progress > c / 100
      lt(c) == 100 * n < c * d        \* progress < c / 100
      isNearDischarge == lt(15)
      isDischargeDay == dayIndex = totalDays - 1
      \* progress * k / 10 + c / 10
      scaled(k, c) == Max(0, RoundDiv(k * n, d) - (IF LostTie(k, n, d) THEN 1 ELSE 0) + c)
      riskScore ==
        CASE domain = "Mobility" ->
               IF AnyOf(T.all, {<<"unsafe for ", "ambulation">>, <<"unable to transfer">>,
                              <<"bedbound">>, <<"2", " person assist">>})
               THEN IF isDischargeDay THEN 0
                    ELSE IF isNearDischarge THEN (IF lt(8) THEN 0 ELSE 5)
                    ELSE (IF gt(70) THEN 30 ELSE IF gt(40) THEN 20 ELSE 15)
               ELSE IF AnyOf(T.all, {<<"minimum", " assistance">>, <<"moderate", " assistance">>,
                                   <<"wheelchair">>, <<"rolling ", "walker">>,
                                   <<"standby assist">>})
               THEN IF AnyOf(T.mgmt, {<<"functional ", "mobility">>, <<"adl training">>,
                                    <<"transfer training">>})
                    THEN IF isDischargeDay THEN 0
                         ELSE IF isNearDischarge THEN (IF lt(10) THEN 0 ELSE 5)
                         ELSE (IF gt(60) THEN 25 ELSE IF gt(30) THEN 20 ELSE 15)
                    ELSE IF isDischargeDay THEN 5
                         ELSE (IF gt(50) THEN 20 ELSE 15)
               ELSE IF AnyOf(T.all, {<<"moderately ", "independent">>, <<"independent">>,
                                   <<"walker">>, <<"cane">>, <<"ambulation">>})
               THEN IF AnyOf(T.dcPlan, {<<"mobility">>, <<"exercise program">>, <<"hep">>})
                    THEN IF isDischargeDay THEN 0
                         ELSE (IF gt(40) THEN 15 ELSE IF gt(20) THEN 10 ELSE 5)
                    ELSE IF isDischargeDay THEN 0
                         ELSE (IF gt(30) THEN 15 ELSE IF gt(15) THEN 8 ELSE 3)
               ELSE IF isDischargeDay THEN 0 ELSE scaled(25, 0)
          [] domain = "WoundCare" ->
               IF ~AnyOf(T.all, {<<"wound">>, <<"ulcer">>, <<"dressing">>}) THEN 0
               ELSE IF \/ AnyOf(T.course, {<<"new ", "wound">>})
                       \/ AnyOf(T.all, {<<"infection">>, <<"pressure ", "ulcer">>})
               THEN IF isDischargeDay THEN 0
                    ELSE IF isNearDischarge THEN (IF lt(10) THEN 0 ELSE 8)
                    ELSE (IF gt(70) THEN 30 ELSE IF gt(40) THEN 20 ELSE 15)
               ELSE IF AnyOf(T.mgmt, {<<"wound", " care", " initiated">>, <<"dressing">>,
                                    <<"no ", "infection">>})
               THEN IF AnyOf(T.dcPlan, {<<"wound", " clinic">>, <<"wound", " care">>})
                    THEN IF isDischargeDay THEN 0
                         ELSE IF isNearDischarge THEN (IF lt(12) THEN 0 ELSE 10)
                         ELSE (IF gt(50) THEN 20 ELSE IF gt(20) THEN 15 ELSE 10)
                    ELSE IF isDischargeDay THEN 5
                         ELSE (IF gt(40) THEN 18 ELSE 12)
               ELSE IF AnyOf(T.all, {<<"healing">>, <<"improved">>})
               THEN IF isDischargeDay THEN 0
                    ELSE (IF gt(30) THEN 15 ELSE IF gt(10) THEN 8 ELSE 2)
               ELSE IF isDischargeDay THEN 0 ELSE scaled(20, 5)
          [] domain = "MedicalStability" ->
               IF \/ AnyOf(T.course, {<<"hypokalemic">>, <<"hypomagnesemic">>,
                                    <<"electrolyte", " abnormalities">>,
                                    <<"acute kidney injury">>})
                  \/ AnyOf(T.all, {<<"respiratory failure">>, <<"icu">>, <<"rapid response">>})
               THEN IF AnyOf(T.mgmt, {<<"medical management">>, <<"electrolyte">>})
                    THEN IF isDischargeDay THEN 0
                         ELSE IF isNearDischarge THEN (IF lt(10) THEN 0 ELSE 8)
                         ELSE (IF gt(70) THEN 30 ELSE IF gt(40) THEN 20 ELSE 15)
                    ELSE IF isDischargeDay THEN 5
                         ELSE (IF gt(60) THEN 25 ELSE 18)
               ELSE IF AnyOf(T.mgmt, {<<"stable">>, <<"improved">>, <<"resolved">>,
                                    <<"controlled">>})
               THEN IF isDischargeDay THEN 0
                    ELSE (IF gt(50) THEN 18 ELSE IF gt(20) THEN 10 ELSE 5)
               ELSE IF AnyOf(T.all, {<<"baseline">>, <<"stable">>})
               THEN IF isDischargeDay THEN 0
                    ELSE (IF gt(40) THEN 15 ELSE IF gt(10) THEN 8 ELSE 2)
               ELSE IF isDischargeDay THEN 0 ELSE scaled(25, 0)
          [] domain = "Swallowing" ->
               IF AnyOf(T.all, {<<"aspiration">>, <<"dysphagia">>, <<"tube feeds">>, <<"npo">>})
               THEN IF isDischargeDay THEN 0
                    ELSE IF isNearDischarge THEN (IF lt(10) THEN 0 ELSE 10)
                    ELSE (IF gt(70) THEN 30 ELSE IF gt(40) THEN 20 ELSE 15)
               ELSE IF AnyOf(T.mgmt, {<<"swallowing">>, <<"feeding">>, <<"swallow eval">>,
                                    <<"diet">>})
               THEN IF AnyOf(T.all, {<<"puree">>, <<"soft">>, <<"precautions">>})
                    THEN IF AnyOf(T.dcPlan, {<<"swallowing">>, <<"diet">>})
                         THEN IF isDischargeDay THEN 0
                              ELSE IF isNearDischarge THEN (IF lt(12) THEN 0 ELSE 10)
                              ELSE (IF gt(50) THEN 20 ELSE IF gt(20) THEN 15 ELSE 10)
                         ELSE IF isDischargeDay THEN 5
                              ELSE (IF gt(40) THEN 18 ELSE 12)
                    ELSE IF AnyOf(T.all, {<<"thin liquids">>, <<"regular ", "diet">>,
                                        <<"no restrictions">>})
                    THEN IF isDischargeDay THEN 0
                         ELSE (IF gt(30) THEN 15 ELSE IF gt(10) THEN 8 ELSE 2)
                    ELSE IF isDischargeDay THEN 5
                         ELSE (IF gt(40) THEN 18 ELSE 12)
               ELSE IF isDischargeDay THEN 0 ELSE scaled(25, 0)
          [] domain = "Education" ->
               IF AnyOf(T.dcPlan, {<<"education">>}) \/ AnyOf(T.all, {<<"education", ":">>})
               THEN IF AnyOf(T.all, {<<"reviewed">>, <<"taught">>, <<"instructed">>})
                    THEN IF isDischargeDay THEN 0
                         ELSE (IF gt(50) THEN 20 ELSE IF gt(20) THEN 10 ELSE 5)
                    ELSE IF isDischargeDay THEN 5
                         ELSE (IF gt(40) THEN 15 ELSE 10)
               ELSE IF isDischargeDay THEN 3 ELSE scaled(15, 0)
          [] domain = "SocialSupport" ->
               IF AnyOf(T.all, {<<"no ", "caregiver">>, <<"lives alone">>, <<"no ", "family">>})
               THEN (IF isDischargeDay THEN 10 ELSE 25)
               ELSE IF /\ AnyOf(T.all, {<<"caregiver">>})
                       /\ AnyOf(T.all, {<<"checks in">>, <<"does not live">>})
               THEN IF isDischargeDay THEN 0
                    ELSE (IF gt(50) THEN 20 ELSE IF gt(20) THEN 15 ELSE 10)
               ELSE IF \/ AnyOf(T.all, {<<"24", "/", "7">>, <<"full ", "supervision">>,
                                      <<"social work", " arranged">>})
                       \/ AnyOf(T.dcPlan, {<<"supervision">>})
               THEN IF isDischargeDay THEN 0
                    ELSE (IF gt(40) THEN 15 ELSE IF gt(20) THEN 10 ELSE 5)
               ELSE IF AnyOf(T.all, {<<"caregiver">>, <<"family">>})
               THEN IF isDischargeDay THEN 0
                    ELSE (IF gt(50) THEN 18 ELSE IF gt(20) THEN 12 ELSE 6)
               ELSE IF isDischargeDay THEN 0 ELSE scaled(20, 0)
          [] OTHER -> IF isDischargeDay THEN 0 ELSE scaled(20, 0)
  IN Max(0, Min(30, riskScore))

\* ReadinessProgress with the progress of the risk extractor: 1 on the
\* admission day, 0 on the last day.
ReadinessProgressBackward(dayIndex, totalDays) ==
  [n |-> totalDays - 1 - dayIndex, d |-> Max(1, totalDays - 1)]

\* progress of getReadinessLevel, as the fraction n / d: 0 on the admission
\* day, 1 on the last day.
ReadinessProgress(dayIndex, totalDays) ==
  [n |-> dayIndex, d |-> Max(1, totalDays - 1)]

\* getReadinessLevel.  progress is n / d; the scores of the cascade are in
\* tenths and the result is Math.round of the score, clamped to 0..3.
getReadinessLevel(T, domain, dayIndex, totalDays) ==
  LET n == ReadinessProgress(dayIndex, totalDays).n
      d == ReadinessProgress(dayIndex, totalDays).d
      lt(c) == 100 * n < c * d                      \* progress < c / 100
      floorOf(k) == 10 * ((k * n) \div (10 * d))    \* Math.floor(progress * k / 10)
      score ==
        CASE domain = "Mobility" ->
               IF AnyOf(T.all, {<<"unsafe for ", "ambulation">>, <<"unable to transfer">>,
                              <<"bedbound">>, <<"2", " person assist">>})
               THEN (IF lt(30) THEN 0 ELSE IF lt(60) THEN 10 ELSE 20)
               ELSE IF AnyOf(T.all, {<<"minimum", " assistance">>, <<"moderate", " assistance">>,
                                   <<"wheelchair">>, <<"rolling ", "walker">>,
                                   <<"standby assist">>})
               THEN IF AnyOf(T.mgmt, {<<"functional ", "mobility">>, <<"adl training">>,
                                    <<"transfer training">>})
                    THEN (IF lt(40) THEN 10 ELSE IF lt(70) THEN 20 ELSE 25)
                    ELSE (IF lt(50) THEN 10 ELSE 20)
               ELSE IF AnyOf(T.all, {<<"moderately ", "independent">>, <<"independent">>,
                                   <<"walker">>, <<"cane">>, <<"ambulation">>})
               THEN IF AnyOf(T.dcPlan, {<<"mobility">>, <<"exercise program">>, <<"hep">>})
                    THEN (IF lt(60) THEN 20 ELSE 28)
                    ELSE (IF lt(70) THEN 20 ELSE 30)
               ELSE Min(30, floorOf(25))
          [] domain = "WoundCare" ->
               IF ~AnyOf(T.all, {<<"wound">>, <<"ulcer">>, <<"dressing">>}) THEN 30
               ELSE IF \/ AnyOf(T.course, {<<"new ", "wound">>})
                       \/ AnyOf(T.all, {<<"infection">>, <<"pressure ", "ulcer">>})
               THEN (IF lt(30) THEN 0 ELSE IF lt(60) THEN 10 ELSE 15)
               ELSE IF AnyOf(T.mgmt, {<<"wound", " care", " initiated">>, <<"dressing">>,
                                    <<"no ", "infection">>})
               THEN IF AnyOf(T.dcPlan, {<<"wound", " clinic">>, <<"wound", " care">>})
                    THEN (IF lt(50) THEN 10 ELSE IF lt(80) THEN 20 ELSE 25)
                    ELSE (IF lt(60) THEN 15 ELSE 20)
               ELSE IF AnyOf(T.all, {<<"healing">>, <<"improved">>})
               THEN (IF lt(70) THEN 20 ELSE 28)
               ELSE Min(30, floorOf(20) + 10)
          [] domain = "MedicalStability" ->
               IF \/ AnyOf(T.course, {<<"hypokalemic">>, <<"hypomagnesemic">>,
                                    <<"electrolyte", " abnormalities">>,
                                    <<"acute kidney injury">>})
                  \/ AnyOf(T.all, {<<"respiratory failure">>, <<"icu">>, <<"rapid response">>})
               THEN IF AnyOf(T.mgmt, {<<"medical management">>, <<"electrolyte">>})
                    THEN (IF lt(30) THEN 0 ELSE IF lt(60) THEN 10 ELSE 20)
                    ELSE (IF lt(40) THEN 5 ELSE 15)
               ELSE IF AnyOf(T.mgmt, {<<"stable">>, <<"improved">>, <<"resolved">>,
                                    <<"controlled">>})
               THEN (IF lt(50) THEN 15 ELSE IF lt(80) THEN 25 ELSE 30)
               ELSE IF AnyOf(T.all, {<<"baseline">>, <<"stable">>})
               THEN (IF lt(60) THEN 20 ELSE 30)
               ELSE Min(30, floorOf(25))
          [] domain = "Swallowing" ->
               IF AnyOf(T.all, {<<"aspiration">>, <<"dysphagia">>, <<"tube feeds">>, <<"npo">>})
               THEN (IF lt(30) THEN 0 ELSE IF lt(60) THEN 10 ELSE 15)
               ELSE IF AnyOf(T.mgmt, {<<"swallowing">>, <<"feeding">>, <<"swallow eval">>,
                                    <<"diet">>})
               THEN IF AnyOf(T.all, {<<"puree">>, <<"soft">>, <<"precautions">>})
                    THEN IF AnyOf(T.dcPlan, {<<"swallowing">>, <<"diet">>})
                         THEN (IF lt(50) THEN 10 ELSE IF lt(80) THEN 20 ELSE 25)
                         ELSE (IF lt(60) THEN 15 ELSE 20)
                    ELSE IF AnyOf(T.all, {<<"thin liquids">>, <<"regular ", "diet">>,
                                        <<"no restrictions">>})
                    THEN (IF lt(70) THEN 20 ELSE 28)
                    ELSE (IF lt(60) THEN 15 ELSE 20)
               ELSE Min(30, floorOf(25))
          [] domain = "Education" ->
               IF AnyOf(T.dcPlan, {<<"education">>}) \/ AnyOf(T.all, {<<"education", ":">>})
               THEN IF AnyOf(T.all, {<<"reviewed">>, <<"taught">>, <<"instructed">>})
                    THEN (IF lt(50) THEN 0 ELSE IF lt(70) THEN 15
                          ELSE IF lt(90) THEN 25 ELSE 30)
                    ELSE (IF lt(60) THEN 10 ELSE 20)
               ELSE Min(30, floorOf(20))
          [] domain = "SocialSupport" ->
               IF AnyOf(T.all, {<<"no ", "caregiver">>, <<"lives alone">>, <<"no ", "family">>})
               THEN 0
               ELSE IF /\ AnyOf(T.all, {<<"caregiver">>})
                       /\ AnyOf(T.all, {<<"checks in">>, <<"does not live">>})
               THEN (IF lt(50) THEN 10 ELSE IF lt(80) THEN 20 ELSE 25)
               ELSE IF \/ AnyOf(T.all, {<<"24", "/", "7">>, <<"full ", "supervision">>,
                                      <<"social work", " arranged">>})
                       \/ AnyOf(T.dcPlan, {<<"supervision">>})
               THEN (IF lt(60) THEN 20 ELSE IF lt(80) THEN 25 ELSE 30)
               ELSE IF AnyOf(T.all, {<<"caregiver">>, <<"family">>})
               THEN (IF lt(50) THEN 15 ELSE IF lt(80) THEN 20 ELSE 25)
               ELSE Min(30, floorOf(20))
          [] OTHER -> Min(30, floorOf(20))
  IN Max(0, Min(3, (score + 5) \div 10))

\* RiskRows with the index of a row counted from 1.
RiskRowsFromOne(text, ds) ==
  LET T == Texts(text) IN
  [i \in 1..Len(ds) |->
     [f \in {"Date"} \cup {domains[k] : k \in 1..Len(domains)} |->
        IF f = "Date" THEN ds[i] ELSE getRiskLevel(T, f, i, Len(ds))]]

\* RiskRows with the days that are left in place of the index of the row.
RiskRowsDaysLeft(text, ds) ==
  LET T == Texts(text) IN
  [i \in 1..Len(ds) |->
     [f \in {"Date"} \cup {domains[k] : k \in 1..Len(domains)} |->
        IF f = "Date" THEN ds[i] ELSE getRiskLevel(T, f, Len(ds) - i, Len(ds))]]

\* dates.map((date, index) => row): the row has the date and, for every
\* domain, the score of the extractor.
RiskRows(text, ds) ==
  LET T == Texts(text) IN
  [i \in 1..Len(ds) |->
     [f \in {"Date"} \cup {domains[k] : k \in 1..Len(domains)} |->
        IF f = "Date" THEN ds[i] ELSE getRiskLevel(T, f, i - 1, Len(ds))]]

ReadinessRows(text, ds) ==
  LET T == Texts(text) IN
  [i \in 1..Len(ds) |->
     [f \in {"Date"} \cup {domains[k] : k \in 1..Len(domains)} |->
        IF f = "Date" THEN ds[i] ELSE getReadinessLevel(T, f, i - 1, Len(ds))]]

\* ------------------------------------------------------------ variables

VARIABLES
  pc,             \* position of the run
  line,           \* classifier run: the line handed to classify
  phaseOut,       \* classifier run: what classify returned
  note,           \* the text of the patient file that fetch reads
  selections,     \* how many times patientNumber has changed
  inFlight,       \* the texts of the fetches that have not settled, oldest first
  rawNote,        \* usePatientData: useState("")
  loading,        \* usePatientData: useState(true)
  sectionsRaw,    \* usePatientData: the rows of the section builder
  sections,       \* usePatientData: the merged sections
  events,         \* usePatientData: buildEvents, includeMeds false
  eventsWithMeds, \* usePatientData: buildEvents, includeMeds true
  start,          \* extractor: parsed admission date
  end,            \* extractor: parsed discharge date
  currentMonth,   \* extractor: month counter of the day loop
  currentDay,     \* extractor: day counter of the day loop
  dates,          \* extractor: the dates pushed so far
  riskGrid,       \* what extractRiskTrendData returned
  readinessGrid   \* what extractReadinessGrid returned

classifyVars == <<line, phaseOut>>
hookVars ==
  <<note, selections, inFlight, rawNote, loading, sectionsRaw, sections, events,
    eventsWithMeds>>
loopVars == <<start, end, currentMonth, currentDay, dates>>
gridVars == <<riskGrid, readinessGrid>>
vars == <<pc, classifyVars, hookVars, loopVars, gridVars>>

NoDate == [month |-> 0, day |-> 0]

\* The state of the parts a run does not use.
HookIdle ==
  /\ note = <<>> /\ selections = 0 /\ inFlight = <<>> /\ rawNote = <<>> /\ loading = TRUE
  /\ sectionsRaw = <<>> /\ sections = <<>> /\ events = <<>> /\ eventsWithMeds = <<>>

LoopIdle ==
  /\ start = NoDate /\ end = NoDate /\ currentMonth = 0 /\ currentDay = 0
  /\ dates = <<>>

GridIdle == riskGrid = <<>> /\ readinessGrid = <<>>

\* ------------------------------------------------------- classifier run

\* What a line may begin with: every rule of the taxonomy in its canonical
\* spelling, the optional characters left out, other letter cases, and
\* beginnings that no rule matches.
LineHeads ==
  { <<"Patient Name">>, <<"Age", "/", "Gender">>, <<"Age", "Gender">>,
    <<"Admission Date">>, <<"Discharge Date">>, <<"Discharge Disposition">>,
    <<"Comorbidities">>, <<"Prior level", " of function">>,
    <<"Self", "-", "care", "/", "Caregiving">>, <<"Self", "care", "Caregiving">>,
    <<"Primary Providers">>, <<"Consult to ", "Social work">>,
    <<"Overview">>, <<"Most Responsible Diagnosis">>, <<"Hospital Course">>,
    <<"Patient with multiple medical problems">>,
    <<"Hospital Management">>, <<"Medical management">>, <<"Pain management">>,
    <<"Substance", " Abuse">>, <<"Wound", " care">>, <<"Wound", " Care">>,
    <<"Chronic risk for constipation">>, <<"Chronic Urinary incontinence">>,
    <<"Activities of Daily Living", "/", "Functional ", "mobility">>,
    <<"Activities of Daily Living", "Functional ", "mobility">>,
    <<"Durable Medical Equipment">>, <<"Feeding", "/", "Swallowing">>,
    <<"Risk for", " ", "aspiration">>, <<"Decreased", " ", "cardiac output">>,
    <<"Impaired", " ", "skin integrity">>,
    <<"Discharge Plan">>, <<"Substance", " Use">>, <<"Skin", "/", "Wound", " Care">>,
    <<"Mobility">>, <<"mobility">>, <<"MOBILITY">>, <<"Swallowing">>,
    <<"Communication">>, <<"Medication", " assistance">>, <<"Education">>,
    <<"Follow", "-", "Up", " Arrangements">>, <<"Follow", "Up", " Arrangements">>,
    <<"Medication", "s">>,
    <<"Notes">>, <<"Risk for">>, <<"Medication">>, <<"Substance">>,
    <<"Follow", "-", "Up">>, <<"Summary of ", "Hospital Management">>,
    <<"Summary of ", "Mobility">>, <<"-", " ", "pneumonia">> }

\* How a line may go on.
LineTails ==
  { <<>>, <<":", " ", "stable">>,
    <<":", " ", "Discipline", ":", " ", "RN">>,
    <<":", "Discipline", ":", "PT">>,
    <<" ", "Discipline", " ", "RN">>,
    <<" ", "Hospital Management">> }

ClassifyLines == { h \o t : h \in LineHeads, t \in LineTails }

InitClassify ==
  /\ pc = "line"
  /\ line \in ClassifyLines
  /\ phaseOut = "none"
  /\ HookIdle /\ LoopIdle /\ GridIdle

\* classify(line)
Classify ==
  /\ pc = "line"
  /\ phaseOut' = classify(line)
  /\ pc' = "classified"
  /\ UNCHANGED <<line, hookVars, loopVars, gridVars>>

NextClassify == Classify

SpecClassify == InitClassify /\ [][NextClassify]_vars

\* ---------------------------------------------------------- the notes

\* Array.prototype.join("\n")
RECURSIVE Join(_)
Join(ls) ==
  IF ls = <<>> THEN <<>>
  ELSE IF Len(ls) = 1 THEN ls[1]
  ELSE ls[1] \o <<"\n">> \o Join(Tail(ls))

\* The longest note, in lines, of the notes put together from SectionLines.
MaxLines == 3

\* The longest stay, in days, of the notes that sweep the calendar.
MaxStay == 8

DateLine(key, m, d) == <<key, ":", " ", ToString(m), "/", ToString(d)>>

\* Lines of a discharge summary, one or more for every path of the section
\* builder.
SectionLines ==
  { <<"Patient Name", ":", " ", "J. Doe">>,
    <<"Comorbidities", ":", " ", "diabetes">>,
    <<"Hospital Management", ":">>,
    <<"Risk for", " ", "aspiration", ":", " ", "high">>,
    <<"Discharge Plan">>,
    <<"Mobility", ":", " ", "independent">>,
    <<"Follow", "-", "Up", " Arrangements", ":", " ", "PT clinic arranged">>,
    <<"Medication", "s", ":", " ", "Lisinopril">>,
    <<"Consult to ", "Social work", " arranged">>,
    <<"Most Responsible Diagnosis">>,
    <<"-", " ", "pneumonia">> }

RECURSIVE SeqsUpTo(_, _)
SeqsUpTo(S, n) ==
  IF n = 0 THEN {<<>>}
  ELSE LET shorter == SeqsUpTo(S, n - 1)
       IN shorter \cup {Append(q, x) : q \in {r \in shorter : Len(r) = n - 1}, x \in S}

SectionNotes == {Join(ls) : ls \in SeqsUpTo(SectionLines, MaxLines)}

\* The calendar of the fixed month table: its days, the ordinal of a day in
\* the year, and the day of an ordinal.
RealDays == {md \in (1..12) \X (1..31) : md[2] <= days[md[1]]}
RECURSIVE DaysBefore(_)
DaysBefore(m) == IF m <= 1 THEN 0 ELSE days[m - 1] + DaysBefore(m - 1)
Ordinal(m, d) == DaysBefore(m) + d
DayAt(o) == CHOOSE md \in RealDays : Ordinal(md[1], md[2]) = o
IsRealDay(dt) == <<dt.month, dt.day>> \in RealDays

\* Notes of every stay of up to MaxStay days that begins on a day of the
\* calendar and ends in the same year.
CalendarNotes ==
  { Join(<<DateLine("Admission Date", ak[1][1], ak[1][2]),
           DateLine("Discharge Date", DayAt(Ordinal(ak[1][1], ak[1][2]) + ak[2])[1],
                                      DayAt(Ordinal(ak[1][1], ak[1][2]) + ak[2])[2])>>) :
      ak \in { x \in RealDays \X (0..(MaxStay - 1)) :
                 Ordinal(x[1][1], x[1][2]) + x[2] <= Ordinal(12, 31) } }

\* Lines that carry the keywords of the Mobility cascade.
MobilityLines ==
  { <<"Hospital Course", ":", " ", "bedbound", ",", " ", "unsafe for ", "ambulation">>,
    <<"Hospital Course", ":", " ", "wheelchair">>,
    <<"Hospital Course", ":", " ", "independent">>,
    <<"Hospital Course", ":", " ", "stable">> }

\* Notes of a stay that begins on 5/4, with one line of the Mobility cascade.
KeywordNotes ==
  { Join(<<DateLine("Admission Date", 5, 4),
           DateLine("Discharge Date", DayAt(Ordinal(5, 4) + k)[1],
                                      DayAt(Ordinal(5, 4) + k)[2]), l>>) :
      k \in 0..(MaxStay - 1), l \in MobilityLines }

\* Lines that carry keywords of the cascades of the other domains.
DomainLines ==
  { <<"Hospital Course", ":", " ", "lives alone", ",", " ", "new ", "wound", ",", " ",
      "dysphagia">>,
    <<"Hospital Management", ":", " ", "dressing", ",", " ", "diet", ",", " ", "soft", ",",
      " ", "icu", ",", " ", "electrolyte">>,
    <<"Education", ":", " ", "reviewed", ",", " ", "caregiver", " ", "checks in">>,
    <<"Education", ":", " ", "pending", ",", " ", "family", ",", " ", "healing", " ",
      "wound">>,
    <<"Hospital Course", ":", " ", "icu", ",", " ", "24", "/", "7">>,
    <<"Hospital Management", ":", " ", "stable", ",", " ", "diet", ",", " ", "thin liquids">> }

\* Notes of a stay that begins on 5/4, with one of these lines.
DomainNotes ==
  { Join(<<DateLine("Admission Date", 5, 4),
           DateLine("Discharge Date", DayAt(Ordinal(5, 4) + k)[1],
                                      DayAt(Ordinal(5, 4) + k)[2]), l>>) :
      k \in 0..(MaxStay - 1), l \in DomainLines }

\* Lines that begin with the labels of a discharge plan and that classify
\* gives to the unit phase.
PlanLines ==
  { <<"Risk for", " ", "aspiration", ":", " ", "high">>,
    <<"Decreased", " ", "strength", ":", " ", "moderate">>,
    <<"Impaired", " ", "balance">>,
    <<"Mobility", ":", " ", "Discipline", ":", " ", "PT">>,
    <<"Swallowing", ":", " ", "Discipline", ":", " ", "SLP">>,
    <<"Communication", ":", " ", "Discipline", ":", " ", "SLP">>,
    <<"Skin", "/", "Wound", " Care", ":", " ", "Discipline", ":", " ", "RN">>,
    <<"Education", ":", " ", "Discipline", ":", " ", "RN">>,
    <<"Substance", " Use", ":", " ", "Discipline", ":", " ", "SW">>,
    <<"Medication", " assistance", ":", " ", "Discipline", ":", " ", "RN">> }

\* Notes with one of these lines outside a discharge plan, inside one, after
\* its end, and with the header that opens or closes the plan standing
\* directly after a Most Responsible Diagnosis line; and notes with one of
\* these lines in front of the two kinds of rows of back_home.
PlanNotes ==
  { Join(hs \o <<l>>) :
      hs \in { <<>>,
               << <<"Discharge Plan", ":">> >>,
               << <<"Discharge Plan">>, <<"Medication", "s", ":", " ", "Lisinopril">> >>,
               << <<"Most Responsible Diagnosis">>, <<"Discharge Plan">> >>,
               << <<"Discharge Plan">>, <<"Most Responsible Diagnosis">>,
                  <<"Medication", "s", ":", " ", "Lisinopril">> >>,
               << <<"Discharge Plan">>, <<"Most Responsible Diagnosis">>,
                  <<EnDash, " ", "pneumonia">> >> },
      l \in PlanLines }
    \cup { Join(<<l, <<"Follow", "-", "Up", " Arrangements", ":", " ", "PT clinic arranged">>,
                  <<"Medication", "s", ":", " ", "Lisinopril">> >>) : l \in PlanLines }

\* The nine-line synthetic note.
SyntheticNote ==
  Join(<< <<"Patient Name", ":", " ", "J. Doe">>,
          <<"Age", "/", "Gender", ":", " ", "70", "/", "M">>,
          DateLine("Admission Date", 5, 4),
          DateLine("Discharge Date", 5, 5),
          <<"Comorbidities", ":", " ", "diabetes">>,
          <<"Hospital Course", ":", " ", "stable">>,
          <<"Discharge Plan", ":", " ", "Mobility", ":", " ", "independent", " with ", "walker">>,
          <<"Follow", "-", "Up", " Arrangements", ":", " ", "PT clinic arranged">>,
          <<"Medication", "s", ":", " ", "Lisinopril">> >>)

\* Notes without a date the extractors can read, and notes of white space.
UndatedNotes ==
  { DateLine("Admission Date", 5, 4),
    DateLine("Discharge Date", 5, 6),
    Join(<< <<"Admission Date", ":", " ", "TBD">>, DateLine("Discharge Date", 5, 6) >>),
    Join(<< DateLine("Admission Date", 5, 4), <<"Discharge Date", ":", " ", "TBD">> >>),
    Join(<< <<"Admission Date", " ", "5", "/", "4">>, DateLine("Discharge Date", 5, 6) >>),
    Join(<< DateLine("Admission Date", 5, 4), <<"Discharge Date", ":", " ", "5", "-", "6">> >>),
    <<>>, <<"\n">>, <<" ", "\n", "\n", " ">>,
    <<"\n", " ">> \o DateLine("Admission Date", 5, 4) \o <<" ", "\n">> }

\* Dates that are no days of the calendar, or that lie at its ends: a day
\* past the end of its month, a month past December, the month 0.
EdgeDays ==
  { <<0, 30>>, <<0, 31>>, <<1, 1>>, <<2, 28>>, <<2, 30>>, <<2, 31>>, <<3, 1>>, <<4, 31>>,
    <<5, 4>>, <<5, 6>>, <<12, 30>>, <<12, 32>>, <<12, 40>>, <<13, 1>>, <<13, 2>>, <<14, 1>> }

\* Notes of the pairs of such dates, the discharge before the admission, or
\* after it and not later than the month after the admission.
EdgeDateNotes ==
  { Join(<<DateLine("Admission Date", ae[1][1], ae[1][2]),
           DateLine("Discharge Date", ae[2][1], ae[2][2])>>) :
      ae \in { x \in EdgeDays \X EdgeDays : x[2][1] - x[1][1] <= 1 } }

\* How many times the patient is changed in a session.
MaxSelections == 1

\* The files a change of patient may select.
PatientFiles == {SyntheticNote, <<"Patient Name", ":", " ", "J. Doe">>}

\* The first notes of the sessions in which the patient changes while a
\* fetch is in flight.
RaceNotes == PatientFiles \cup UndatedNotes \cup PlanNotes

InputNotes ==
  SectionNotes \cup CalendarNotes \cup KeywordNotes \cup DomainNotes \cup UndatedNotes
    \cup EdgeDateNotes \cup PlanNotes \cup {SyntheticNote}

\* ------------------------------------------------------------ the run

ClassifierIdle == line = <<>> /\ phaseOut = "none"

Init ==
  /\ pc = "loading"
  /\ note \in InputNotes
  /\ selections = 0
  /\ inFlight = <<note>>
  /\ rawNote = <<>>
  /\ loading = TRUE
  /\ sectionsRaw = SectionsRaw(<<>>)
  /\ sections = Sections(SectionsRaw(<<>>))
  /\ events = Events(Sections(SectionsRaw(<<>>)), FALSE)
  /\ eventsWithMeds = Events(Sections(SectionsRaw(<<>>)), TRUE)
  /\ ClassifierIdle /\ LoopIdle /\ GridIdle

\* The render that follows a state change: every memo of the hook is
\* computed again from the raw note.
Render(raw) ==
  /\ sectionsRaw' = SectionsRaw(raw)
  /\ sections' = Sections(sectionsRaw')
  /\ events' = Events(sections', FALSE)
  /\ eventsWithMeds' = Events(sections', TRUE)

\* s without its element k.
Without(s, k) == SubSeq(s, 1, k - 1) \o SubSeq(s, k + 1, Len(s))

\* One of the fetches resolves: setRawNote(text.trim()), setLoading(false).
\* The extractors run once no fetch is left.
FetchOk ==
  /\ pc = "loading"
  /\ \E k \in 1..Len(inFlight) :
        /\ rawNote' = Trim(inFlight[k])
        /\ inFlight' = Without(inFlight, k)
  /\ loading' = FALSE
  /\ Render(rawNote')
  /\ pc' = IF Len(inFlight) = 1 THEN "risk" ELSE "loading"
  /\ UNCHANGED <<note, selections, classifyVars, loopVars, gridVars>>

\* One of the fetches rejects: the catch handler, setLoading(false).
FetchFail ==
  /\ pc = "loading"
  /\ \E k \in 1..Len(inFlight) : inFlight' = Without(inFlight, k)
  /\ loading' = FALSE
  /\ Render(rawNote)
  /\ pc' = IF Len(inFlight) = 1 THEN "failed" ELSE "loading"
  /\ UNCHANGED <<note, selections, rawNote, classifyVars, loopVars, gridVars>>

\* patientNumber changes after the fetch has settled: the effect runs again,
\* setLoading(true), and fetches the file of the other patient.  rawNote
\* keeps its value, and the extractors have not run on the new note.
SelectPatient ==
  /\ pc \in {"done", "failed"}
  /\ selections < MaxSelections
  /\ selections' = selections + 1
  /\ note' \in PatientFiles \ {note}
  /\ inFlight' = <<note'>>
  /\ loading' = TRUE
  /\ Render(rawNote)
  /\ pc' = "loading"
  /\ start' = NoDate /\ end' = NoDate /\ currentMonth' = 0 /\ currentDay' = 0
  /\ dates' = <<>>
  /\ riskGrid' = <<>> /\ readinessGrid' = <<>>
  /\ UNCHANGED <<rawNote, classifyVars>>

\* patientNumber changes while a fetch is in flight: the effect has no
\* cleanup, so the earlier fetch goes on and a second one starts.
SelectPatientInFlight ==
  /\ pc = "loading"
  /\ selections < MaxSelections
  /\ selections' = selections + 1
  /\ note' \in PatientFiles \ {note}
  /\ inFlight' = Append(inFlight, note')
  /\ loading' = TRUE
  /\ Render(rawNote)
  /\ UNCHANGED <<pc, rawNote, classifyVars, loopVars, gridVars>>

\* extractRiskTrendData, up to the day loop: the two date matches, the
\* early return and the set-up of the loop.
RiskMatch ==
  /\ pc = "risk"
  /\ \E admissionMatch \in {MatchDate(note, "admission date")},
        dischargeMatch \in {MatchDate(note, "discharge date")} :
        IF admissionMatch = NoMatch \/ dischargeMatch = NoMatch
        THEN /\ riskGrid' = <<>>
             /\ pc' = "readiness"
             /\ UNCHANGED loopVars
        ELSE /\ start' = admissionMatch
             /\ end' = dischargeMatch
             /\ currentMonth' = admissionMatch.month
             /\ currentDay' = admissionMatch.day
             /\ dates' = <<>>
             /\ pc' = "risk_loop"
             /\ UNCHANGED riskGrid
  /\ UNCHANGED <<readinessGrid, classifyVars, hookVars>>

\* extractRiskTrendData: one turn of the while loop; after a break the grid
\* is built from the dates and returned.
RiskDay ==
  /\ pc = "risk_loop"
  /\ LoopCondition(currentMonth, currentDay, end)
  /\ \E next \in {NextCounters(currentMonth, currentDay)},
        pushed \in {Append(dates, DateString(currentMonth, currentDay))} :
        /\ dates' = pushed
        /\ currentMonth' = next.month
        /\ currentDay' = next.day
        /\ IF SafetyBreak(next.month, next.day, end)
           THEN riskGrid' = RiskRows(note, pushed) /\ pc' = "readiness"
           ELSE riskGrid' = riskGrid /\ pc' = "risk_loop"
  /\ UNCHANGED <<start, end, readinessGrid, classifyVars, hookVars>>

\* extractRiskTrendData: the while condition fails; the grid is built from
\* the dates and returned.
RiskReturn ==
  /\ pc = "risk_loop"
  /\ ~LoopCondition(currentMonth, currentDay, end)
  /\ riskGrid' = RiskRows(note, dates)
  /\ pc' = "readiness"
  /\ UNCHANGED <<loopVars, readinessGrid, classifyVars, hookVars>>

\* extractReadinessGrid, up to the day loop.
ReadinessMatch ==
  /\ pc = "readiness"
  /\ \E admissionMatch \in {MatchDate(note, "admission date")},
        dischargeMatch \in {MatchDate(note, "discharge date")} :
        IF admissionMatch = NoMatch \/ dischargeMatch = NoMatch
        THEN /\ readinessGrid' = <<>>
             /\ pc' = "done"
             /\ UNCHANGED loopVars
        ELSE /\ start' = admissionMatch
             /\ end' = dischargeMatch
             /\ currentMonth' = admissionMatch.month
             /\ currentDay' = admissionMatch.day
             /\ dates' = <<>>
             /\ pc' = "readiness_loop"
             /\ UNCHANGED readinessGrid
  /\ UNCHANGED <<riskGrid, classifyVars, hookVars>>

\* extractReadinessGrid: one turn of the while loop.
ReadinessDay ==
  /\ pc = "readiness_loop"
  /\ LoopCondition(currentMonth, currentDay, end)
  /\ \E next \in {NextCounters(currentMonth, currentDay)},
        pushed \in {Append(dates, DateString(currentMonth, currentDay))} :
        /\ dates' = pushed
        /\ currentMonth' = next.month
        /\ currentDay' = next.day
        /\ IF SafetyBreak(next.month, next.day, end)
           THEN readinessGrid' = ReadinessRows(note, pushed) /\ pc' = "done"
           ELSE readinessGrid' = readinessGrid /\ pc' = "readiness_loop"
  /\ UNCHANGED <<start, end, riskGrid, classifyVars, hookVars>>

\* extractReadinessGrid: the while condition fails.
ReadinessReturn ==
  /\ pc = "readiness_loop"
  /\ ~LoopCondition(currentMonth, currentDay, end)
  /\ readinessGrid' = ReadinessRows(note, dates)
  /\ pc' = "done"
  /\ UNCHANGED <<loopVars, riskGrid, classifyVars, hookVars>>

Next ==
  \/ FetchOk
  \/ FetchFail
  \/ SelectPatient
  \/ RiskMatch
  \/ RiskDay
  \/ RiskReturn
  \/ ReadinessMatch
  \/ ReadinessDay
  \/ ReadinessReturn

Spec == Init /\ [][Next]_vars

\* Sessions in which no fetch fails and the patient may change while a fetch
\* is in flight.
InitRace ==
  /\ pc = "loading"
  /\ note \in RaceNotes
  /\ selections = 0
  /\ inFlight = <<note>>
  /\ rawNote = <<>>
  /\ loading = TRUE
  /\ sectionsRaw = <<>> /\ sections = <<>> /\ events = <<>> /\ eventsWithMeds = <<>>
  /\ ClassifierIdle /\ LoopIdle /\ GridIdle

NextRace ==
  \/ FetchOk
  \/ SelectPatient
  \/ SelectPatientInFlight
  \/ RiskMatch
  \/ RiskDay
  \/ RiskReturn
  \/ ReadinessMatch
  \/ ReadinessDay
  \/ ReadinessReturn

SpecRace == InitRace /\ [][NextRace]_vars

\* ---------------------------------------------------------- properties

\* The phases one of whose rules matches the line, as indices of the
\* taxonomy.
MatchedPhases(l) ==
  { i \in 1..Len(phases) :
      \E r \in 1..Len(phases[i].rules) : Test(phases[i].rules[r], l) }

\* The taxonomy with the rules of every phase in the opposite order.
Reverse(s) == [i \in 1..Len(s) |-> s[Len(s) + 1 - i]]
RulesReversed == [i \in 1..Len(phases) |-> [phases[i] EXCEPT !.rules = Reverse(@)]]

TaxonomyOrder == <<"patient_info", "home", "er", "unit", "discharge", "back_home">>

\* C1: a line that matches rules of two or more phases is classified as the
\* matched phase that stands earliest in the order patient_info, home, er,
\* unit, discharge, back_home, also with the rules of every phase reversed.
FirstPhaseWins ==
  (pc = "classified" /\ Cardinality(MatchedPhases(line)) >= 2) =>
    LET first == CHOOSE i \in MatchedPhases(line) :
                   \A j \in MatchedPhases(line) : i <= j
    IN /\ phaseOut = TaxonomyOrder[first]
       /\ ClassifyIn(RulesReversed, line) = TaxonomyOrder[first]

\* C1 witness: a Mobility line that names a discipline matches the unit and
\* the discharge rules and has been classified as unit.
FirstPhaseWinsWitness ==
  /\ pc = "classified"
  /\ line = <<"Mobility", ":", " ", "Discipline", ":", " ", "RN">>
  /\ MatchedPhases(line) = {4, 5}
  /\ phaseOut = "unit"

\* C2: classify always returns one of the six phase keys, and for a line no
\* rule matches it returns unit when the line contains Hospital Management
\* and home otherwise.
ClassifyTotal ==
  pc = "classified" =>
    /\ phaseOut \in {"patient_info", "home", "er", "unit", "discharge", "back_home"}
    /\ MatchedPhases(line) = {} =>
         phaseOut = IF Includes(Lower(line), <<"hospital management">>)
                    THEN "unit" ELSE "home"

\* C2 witness: a line no rule matches that mentions Hospital Management past
\* its beginning has been classified as unit.
ClassifyTotalWitness ==
  /\ pc = "classified"
  /\ line = <<"Summary of ", "Hospital Management", ":", " ", "stable">>
  /\ MatchedPhases(line) = {}
  /\ phaseOut = "unit"

\* The position of the merged section of a phase, 0 when there is none.
SectionOf(k) ==
  IF \E i \in 1..Len(sections) : sections[i].phase = k
  THEN CHOOSE i \in 1..Len(sections) : sections[i].phase = k
  ELSE 0

RECURSIVE SumCount(_, _)
SumCount(secs, i) == IF i > Len(secs) THEN 0 ELSE secs[i].count + SumCount(secs, i + 1)

\* C3: the counts of the merged sections add up to the number of rows whose
\* phase is not patient_info, and the patient_info section counts 0.
MergeKeepsCount ==
  /\ SumCount(sections, 1) =
       Cardinality({i \in 1..Len(sectionsRaw) : sectionsRaw[i].phase # "patient_info"})
  /\ SectionOf("patient_info") # 0 => sections[SectionOf("patient_info")].count = 0

\* C3 witness: a note with a patient_info row and rows of two other phases has
\* been merged.
MergeKeepsCountWitness ==
  /\ Len(sectionsRaw) = 3
  /\ SectionOf("patient_info") # 0
  /\ SectionOf("back_home") # 0
  /\ SectionOf("discharge") # 0
  /\ SumCount(sections, 1) = 2

\* C4: the value of every event is at least 0, in both series.
EventValueNonNegative ==
  /\ \A i \in 1..Len(events) : events[i].value >= 0
  /\ \A i \in 1..Len(eventsWithMeds) : eventsWithMeds[i].value >= 0

\* C4 witness: events were built for a note whose discharge section holds
\* nothing but the generic header bullet, so that its weight is 1 - 1.
EventValueNonNegativeWitness ==
  /\ SectionOf("discharge") # 0
  /\ sections[SectionOf("discharge")].count = 1
  /\ GenericHeaderBullet(sections[SectionOf("discharge")].content)
  /\ events[SectionOf("discharge")].value = 0
  /\ SectionOf("patient_info") # 0
  /\ eventsWithMeds[SectionOf("patient_info")].value = 0

\* C5: the two series are built from the same sections; on back_home the
\* value with medications exceeds the baseline value by 1 when the section
\* has hasMeds and by 0 when it has not, and on every other phase the two
\* values are equal.
MedsDelta ==
  /\ Len(events) = Len(sections)
  /\ Len(eventsWithMeds) = Len(sections)
  /\ \A i \in 1..Len(sections) :
       /\ events[i].phase = sections[i].phase
       /\ eventsWithMeds[i].phase = sections[i].phase
       /\ eventsWithMeds[i].value - events[i].value =
            IF sections[i].phase = "back_home" /\ sections[i].hasMeds THEN 1 ELSE 0

\* C5 witness: a back_home section with a Medications row and a Follow-Up
\* row: 2 with medications, 1 without.
MedsDeltaWitness ==
  /\ SectionOf("back_home") # 0
  /\ sections[SectionOf("back_home")].hasMeds
  /\ sections[SectionOf("back_home")].count = 2
  /\ eventsWithMeds[SectionOf("back_home")].value = 2
  /\ events[SectionOf("back_home")].value = 1

\* The dates of a grid.
DatesOf(grid) == [i \in 1..Len(grid) |-> grid[i].Date]

\* The days from a to e of the calendar, as M/D strings.
CalendarDates(a, e) ==
  [i \in 1..(Ordinal(e.month, e.day) - Ordinal(a.month, a.day) + 1) |->
     LET md == DayAt(Ordinal(a.month, a.day) + i - 1)
     IN DateString(md[1], md[2])]

\* C6: when the admission date and the discharge date are days of the fixed
\* month table and the admission is not after the discharge, both grids hold
\* one row for every day from the admission to the discharge, in order.
GridCoversStay ==
  (/\ pc = "done"
   /\ IsRealDay(start) /\ IsRealDay(end)
   /\ Ordinal(start.month, start.day) <= Ordinal(end.month, end.day))
  => /\ DatesOf(riskGrid) = CalendarDates(start, end)
     /\ DatesOf(readinessGrid) = CalendarDates(start, end)

\* C6 witness: the stay from 5/4 to 5/11 has given the eight rows 5/4 to 5/11
\* in both grids.
GridCoversStayWitness ==
  /\ pc = "done"
  /\ start = [month |-> 5, day |-> 4] /\ end = [month |-> 5, day |-> 11]
  /\ DatesOf(riskGrid) = <<"5/4", "5/5", "5/6", "5/7", "5/8", "5/9", "5/10", "5/11">>
  /\ DatesOf(readinessGrid) = DatesOf(riskGrid)

\* The expected bullet block of one line.
BulletOf(label, content) == <<Bullet, " ">> \o label \o <<":", " ">> \o content

\* C7: the nine-line synthetic note yields a home section from the
\* Comorbidities line, an er section from the Hospital Course line, a
\* discharge section from the Discharge Plan line, a back_home section with
\* hasMeds, and two grids of the two rows 5/4 and 5/5.
SyntheticNoteScenario ==
  (pc = "done" /\ note = SyntheticNote) =>
    /\ SectionOf("home") # 0
    /\ sections[SectionOf("home")].content = BulletOf(<<"Comorbidities">>, <<"diabetes">>)
    /\ SectionOf("er") # 0
    /\ sections[SectionOf("er")].content = BulletOf(<<"Hospital Course">>, <<"stable">>)
    /\ SectionOf("discharge") # 0
    /\ sections[SectionOf("discharge")].content =
         BulletOf(<<"Discharge Plan">>,
                  <<"Mobility", ":", " ", "independent", " with ", "walker">>)
    /\ SectionOf("back_home") # 0
    /\ sections[SectionOf("back_home")].hasMeds
    /\ DatesOf(riskGrid) = <<"5/4", "5/5">>
    /\ DatesOf(readinessGrid) = <<"5/4", "5/5">>

\* C7 witness: the synthetic note has gone through the hook and both
\* extractors.
SyntheticNoteScenarioWitness ==
  /\ pc = "done"
  /\ note = SyntheticNote
  /\ rawNote = SyntheticNote
  /\ Len(sectionsRaw) = 9
  /\ Len(sections) = 5
  /\ Len(riskGrid) = 2

\* The case of C8: a note with bedbound and unsafe for ambulation and a stay
\* of eight days, its risk grid returned.
BedboundEightDays ==
  /\ pc \in {"readiness", "readiness_loop", "done"}
  /\ Includes(Lower(note), <<"bedbound">>)
  /\ Includes(Lower(note), <<"unsafe for ", "ambulation">>)
  /\ Len(riskGrid) = 8

\* C8 as stated: the Mobility risk of day 0 lies between 1.5 and 2 and the
\* Mobility risk of day 7 is 0.
BedboundRiskAsStated ==
  BedboundEightDays =>
    /\ riskGrid[1].Mobility >= 15 /\ riskGrid[1].Mobility <= 20
    /\ riskGrid[8].Mobility = 0

\* C8 amended: the Mobility risk of day 0 is 3 and the Mobility risk of day 7
\* is 0.
BedboundRisk ==
  BedboundEightDays =>
    /\ riskGrid[1].Mobility = 30
    /\ riskGrid[8].Mobility = 0

\* C8 witness: the risk grid of such a note has been returned, with a
\* Mobility risk that falls from 3 to 0.
BedboundRiskWitness ==
  /\ BedboundEightDays
  /\ pc = "done"
  /\ riskGrid[1].Mobility = 30
  /\ riskGrid[6].Mobility = 15
  /\ riskGrid[8].Mobility = 0

\* The text holds a match of /<key>:\s*(\d+\/\d+)/i.
HasDate(text, key) == \E i \in 1..Len(text) : DateMatchAt(Lower(text), key, i)

\* C9: when the note has no Admission Date match or no Discharge Date match,
\* each extractor returns the empty grid and the run goes on to its end.
NoDatesNoGrid ==
  (~HasDate(note, "admission date") \/ ~HasDate(note, "discharge date")) =>
    /\ riskGrid = <<>>
    /\ readinessGrid = <<>>
    /\ pc \in {"loading", "failed", "risk", "readiness", "done"}

\* C9 witness: both extractors have returned for a note that has an admission
\* date and a discharge date that the pattern does not match.
NoDatesNoGridWitness ==
  /\ pc = "done"
  /\ HasDate(note, "admission date")
  /\ ~HasDate(note, "discharge date")
  /\ Includes(Lower(note), <<"discharge date">>)
  /\ riskGrid = <<>> /\ readinessGrid = <<>>

\* C10: for an empty raw note the rows, the merged sections and the two event
\* series are empty, and when the text of the note is empty the two grids
\* the extractors return are empty.
EmptyNoteEmptyOutput ==
  /\ rawNote = <<>> =>
       /\ sectionsRaw = <<>> /\ sections = <<>>
       /\ events = <<>> /\ eventsWithMeds = <<>>
  /\ Trim(note) = <<>> => (riskGrid = <<>> /\ readinessGrid = <<>>)

\* C10 witness: a note of white space only has been fetched and has gone
\* through the hook and both extractors.
EmptyNoteEmptyOutputWitness ==
  /\ pc = "done"
  /\ note # <<>>
  /\ rawNote = <<>>
  /\ loading = FALSE
  /\ sections = <<>> /\ events = <<>>
  /\ riskGrid = <<>> /\ readinessGrid = <<>>

\* The discharge date of the note lies before its admission date.
DischargeBeforeAdmission ==
  /\ start # NoDate
  /\ end.month < start.month \/ (end.month = start.month /\ end.day < start.day)

\* A measure of what is left of a day loop: the months and days up to the
\* largest number a note can hold.
LoopVariant == (MaxNumber + 1 - currentMonth) * (MaxNumber + 1) + (MaxNumber - currentDay)

\* C11: the day loop of each extractor comes to its end for every pair of
\* dates: LoopVariant is a natural number in the loop and every turn that
\* stays in the loop makes it smaller; and a discharge date before the
\* admission date gives no row.
LoopsTerminate ==
  /\ [](pc \in {"risk_loop", "readiness_loop"} => LoopVariant >= 0)
  /\ [][(pc \in {"risk_loop", "readiness_loop"} /\ pc' = pc) =>
         (LoopVariant' < LoopVariant /\ Len(dates') = Len(dates) + 1)]_vars
  /\ []((pc = "done" /\ DischargeBeforeAdmission) =>
          (riskGrid = <<>> /\ readinessGrid = <<>> /\ dates = <<>>))

\* C11 witness: both extractors have returned without a row for the stay
\* from 5/6 to 5/4.
LoopsTerminateWitness ==
  /\ pc = "done"
  /\ start = [month |-> 5, day |-> 6] /\ end = [month |-> 5, day |-> 4]
  /\ DischargeBeforeAdmission
  /\ riskGrid = <<>> /\ readinessGrid = <<>>

Domains == {domains[k] : k \in 1..Len(domains)}

\* C12: every domain score of every row of both grids lies between 0 and 3:
\* a readiness score is one of the integers 0, 1, 2, 3 and a risk score is a
\* whole number of tenths between 0 and 3 (0..30 in tenths).
ScoresInRange ==
  /\ \A i \in 1..Len(riskGrid) : \A f \in Domains : riskGrid[i][f] \in 0..30
  /\ \A i \in 1..Len(readinessGrid) : \A f \in Domains : readinessGrid[i][f] \in 0..3

\* A finished run whose grids hold both ends of the two ranges and a risk
\* score that is no whole number.
ScoresInRangeWitness ==
  /\ pc = "done"
  /\ \E i \in 1..Len(riskGrid) : \E f \in Domains : riskGrid[i][f] = 30
  /\ \E i \in 1..Len(riskGrid) : \E f \in Domains : riskGrid[i][f] = 0
  /\ \E i \in 1..Len(riskGrid) : \E f \in Domains : riskGrid[i][f] % 10 # 0
  /\ \E i \in 1..Len(readinessGrid) : \E f \in Domains : readinessGrid[i][f] = 3
  /\ \E i \in 1..Len(readinessGrid) : \E f \in Domains : readinessGrid[i][f] = 0

\* The note says that the patient has no support at home.
NoSupport ==
  AnyOf(Lower(note), {<<"no ", "caregiver">>, <<"lives alone">>, <<"no ", "family">>})

RiskNeverRises ==
  \A i \in 1..(Len(riskGrid) - 1) : \A f \in Domains : riskGrid[i + 1][f] <= riskGrid[i][f]

\* The rows of a phase, as positions in sectionsRaw, and the place of a
\* phase in the taxonomy order.
RowsOf(k) == {i \in 1..Len(sectionsRaw) : sectionsRaw[i].phase = k}
PlaceOf(k) == CHOOSE n \in 1..Len(TaxonomyOrder) : TaxonomyOrder[n] = k

\* C15: the merger emits exactly one merged section for each phase that has
\* at least one row and none for a phase without rows, in the taxonomy
\* order, and the count of a section is the number of rows of its phase,
\* except that the count of patient_info is 0.
OneSectionPerPhase ==
  /\ \A n \in 1..Len(TaxonomyOrder) :
        Cardinality({i \in 1..Len(sections) : sections[i].phase = TaxonomyOrder[n]})
          = (IF RowsOf(TaxonomyOrder[n]) # {} THEN 1 ELSE 0)
  /\ \A i \in 1..Len(sections) :
        /\ sections[i].phase \in {TaxonomyOrder[n] : n \in 1..Len(TaxonomyOrder)}
        /\ sections[i].count = (IF sections[i].phase = "patient_info" THEN 0
                                ELSE Cardinality(RowsOf(sections[i].phase)))
  /\ \A i \in 1..(Len(sections) - 1) :
        PlaceOf(sections[i].phase) < PlaceOf(sections[i + 1].phase)

\* Three rows were merged into two sections: patient_info, which counts 0,
\* and a later phase with two rows; the other phases have no section.
OneSectionPerPhaseWitness ==
  /\ Len(sectionsRaw) = 3 /\ Len(sections) = 2
  /\ sectionsRaw[1].phase # "patient_info" /\ sectionsRaw[3].phase = "patient_info"
  /\ sections[1].phase = "patient_info" /\ sections[1].count = 0
  /\ sections[2].count = 2

\* The events of a series stand one to one, in the same order, for the
\* merged sections, each with ts = order of its phase x 1000.
EventsFollow(evs) ==
  /\ Len(evs) = Len(sections)
  /\ \A i \in 1..Len(evs) :
        /\ evs[i].id = sections[i].id
        /\ evs[i].phase = sections[i].phase
        /\ evs[i].ts = phases[PlaceOf(sections[i].phase)].order * 1000

\* C16: the events of both series are derived one to one and in the same
\* order from the merged sections, with ts = order of the phase x 1000; ts
\* is strictly increasing along the list of events, and the event of
\* patient_info (ts = -1000) is the first one when there is one.
EventsInPhaseOrder ==
  /\ EventsFollow(events) /\ EventsFollow(eventsWithMeds)
  /\ \A i \in 1..(Len(events) - 1) : events[i].ts < events[i + 1].ts
  /\ \A i \in 1..Len(events) :
        events[i].phase = "patient_info" => (i = 1 /\ events[i].ts = -1000)

\* Events of a note with rows of patient_info, home and back_home, written
\* in the opposite order.
EventsInPhaseOrderWitness ==
  /\ Len(sectionsRaw) = 3
  /\ sectionsRaw[1].phase = "back_home" /\ sectionsRaw[3].phase = "patient_info"
  /\ Len(events) = 3
  /\ events[1].ts = -1000 /\ events[2].ts = 0 /\ events[3].ts = 4000

\* C17: when the fetch of the note of the selected patient fails, the hook
\* runs on an empty input and returns empty rows, sections and events, at any
\* point of a session, also after the note of another patient was loaded.
FailedFetchEmptyOutput ==
  pc = "failed" =>
    /\ rawNote = <<>>
    /\ sectionsRaw = <<>> /\ sections = <<>>
    /\ events = <<>> /\ eventsWithMeds = <<>>

\* The labels of a discharge plan.
PlanLabel ==
  Re(TRUE, {<<"risk for">>, <<"decreased">>, <<"impaired">>, <<"mobility">>,
            <<"swallowing">>, <<"communication">>, <<"skin", "/", "wound", " care">>,
            <<"education">>, <<"substance", " use">>, <<"medication", " assistance">>})

\* C18: a row built while inDischargePlan is true whose label starts with one
\* of the labels of a discharge plan has the phase discharge, whatever
\* classify returns for its line; every other row has the phase
\* classify(line).
OverrideInPlan ==
  \E expanded \in {Expand(Lines(rawNote), 1, <<>>)} :
    \E turns \in {SelectSeq(Visits(expanded, 1, FALSE, <<>>), LAMBDA v : v.row)} :
      /\ Len(turns) = Len(sectionsRaw)
      /\ \A r \in 1..Len(turns) :
           sectionsRaw[r].phase =
             IF turns[r].inDischargePlan /\ Test(PlanLabel, sectionsRaw[r].label)
             THEN "discharge" ELSE classify(expanded[turns[r].at])

\* A Substance Use line that names a discipline, for classify a line of the
\* unit phase, stands in a discharge plan and its row has the phase discharge.
OverrideInPlanWitness ==
  /\ Len(sectionsRaw) = 2
  /\ sectionsRaw[1].label = <<"Discharge Plan">>
  /\ sectionsRaw[2].label = <<"Substance", " Use">>
  /\ classify(Lines(rawNote)[2]) = "unit"
  /\ sectionsRaw[2].phase = "discharge"

\* inDischargePlan as the lines of the note determine it: some line at or
\* before line i starts with Discharge Plan, and no line from there to line i
\* starts with Follow-Up Arrangements or Medications.
InPlanAt(expanded, i) ==
  \E j \in 1..i :
    /\ Test(EntersDischargePlan, expanded[j])
    /\ \A k \in j..i : ~Test(LeavesDischargePlan, expanded[k])

\* C19: inDischargePlan becomes true on every line of the note that starts
\* with Discharge Plan and stays true until the next line that starts with
\* Follow-Up Arrangements or Medications, wherever these lines stand, also
\* directly after a Most Responsible Diagnosis line.
FlagFollowsHeaders ==
  \E expanded \in {Expand(Lines(rawNote), 1, <<>>)} :
    \E turns \in {Visits(expanded, 1, FALSE, <<>>)} :
      \A v \in 1..Len(turns) :
        turns[v].inDischargePlan = InPlanAt(expanded, turns[v].at)

\* A line without its leading hyphen, en dash or em dash and the white space
\* that follows it.
WithoutDash(l) ==
  IF l # <<>> /\ l[1] \in {"-", EnDash, EmDash} THEN TrimLeft(Tail(l)) ELSE l

\* The line after line i, empty when line i is the last one.
NextLine(expanded, i) == IF i + 1 <= Len(expanded) THEN expanded[i + 1] ELSE <<>>

\* C20: a line that is exactly Most Responsible Diagnosis, when the row loop
\* comes to it, produces one row: its label is the line and its content the
\* next line without its leading dash, empty when there is no next line (a
\* Consult to Social work line that follows is appended to it later); the
\* next line is consumed and produces no row of its own.
HeaderTakesNextLine ==
  \E expanded \in {Expand(Lines(rawNote), 1, <<>>)} :
    \E turns \in {Visits(expanded, 1, FALSE, <<>>)} :
      /\ Len(sectionsRaw) = Cardinality({w \in 1..Len(turns) : turns[w].row})
      /\ \A v \in 1..Len(turns) :
           Lower(expanded[turns[v].at]) = <<"most responsible diagnosis">> =>
             \E r \in {Cardinality({w \in 1..v : turns[w].row})} :
               /\ turns[v].row
               /\ sectionsRaw[r].label = expanded[turns[v].at]
               /\ StartsWith(sectionsRaw[r].content, WithoutDash(NextLine(expanded, turns[v].at)))
               /\ (v = Len(turns) \/ turns[v + 1].row) =>
                    sectionsRaw[r].content = WithoutDash(NextLine(expanded, turns[v].at))
               /\ \A w \in 1..Len(turns) : turns[w].at # turns[v].at + 1

\* A note of the header, its value behind an en dash, and one more line has
\* been turned into two rows: the value is the content of the first row,
\* without the dash, and has no row of its own.
HeaderTakesNextLineWitness ==
  /\ Len(Lines(rawNote)) = 4
  /\ Lines(rawNote)[2] = <<"Most Responsible Diagnosis">>
  /\ Lines(rawNote)[3] = <<EnDash, " ", "pneumonia">>
  /\ Len(sectionsRaw) = 3
  /\ sectionsRaw[2].label = <<"Most Responsible Diagnosis">>
  /\ sectionsRaw[2].content = <<"pneumonia">>
  /\ sectionsRaw[3].phase = "discharge"

\* s ends with the atoms of p.
EndsWith(s, p) == Len(p) <= Len(s) /\ SubSeq(s, Len(s) - Len(p) + 1, Len(s)) = p

\* The lines of the turns from turn v up to the next turn that pushes a row,
\* each with a space in front of it.
RECURSIVE AttachedFrom(_, _, _)
AttachedFrom(expanded, turns, v) ==
  IF v > Len(turns) \/ turns[v].row THEN <<>>
  ELSE <<" ">> \o expanded[turns[v].at] \o AttachedFrom(expanded, turns, v + 1)

ConsultLine(l) == StartsWith(Lower(l), <<"consult to ", "social work">>)

\* C21 as stated: a line that starts with Consult to Social work never
\* starts a row, wherever it stands in the note: no row has it as its label.
ConsultNeverStartsRowAsStated ==
  \A r \in 1..Len(sectionsRaw) : ~ConsultLine(sectionsRaw[r].label)

\* C21, amended: a line that starts with Consult to Social work and that
\* the row loop comes to after a row was pushed starts no row: it is
\* appended, after one space, to the content of the last row, and the number
\* of rows is the number of the other turns.  As the first line of the note
\* it starts a row of its own; directly after a Most Responsible Diagnosis
\* line it is the content of that row.
ConsultAttaches ==
  \E expanded \in {Expand(Lines(rawNote), 1, <<>>)} :
    \E turns \in {Visits(expanded, 1, FALSE, <<>>)} :
      /\ Len(sectionsRaw) = Cardinality({w \in 1..Len(turns) : turns[w].row})
      /\ \A v \in 1..Len(turns) :
           ConsultLine(expanded[turns[v].at]) =>
             /\ turns[v].row = (v = 1)
             /\ v = 1 => sectionsRaw[1].label = expanded[1]
             /\ v > 1 =>
                  \E r \in {Cardinality({w \in 1..v : turns[w].row})} :
                    EndsWith(sectionsRaw[r].content, AttachedFrom(expanded, turns, v))
      /\ \A i \in 1..Len(expanded) :
           (ConsultLine(expanded[i]) /\ \A v \in 1..Len(turns) : turns[v].at # i) =>
             (i > 1 /\ Lower(expanded[i - 1]) = <<"most responsible diagnosis">>)

\* A note of three lines, the second and the third of them Consult to Social
\* work lines, has one row, whose content ends with the two lines.
ConsultAttachesWitness ==
  /\ Len(Lines(rawNote)) = 3
  /\ Len(sectionsRaw) = 1
  /\ sectionsRaw[1].label = <<"Comorbidities">>
  /\ sectionsRaw[1].content =
       <<"diabetes", " ", "Consult to ", "Social work", " arranged",
         " ", "Consult to ", "Social work", " arranged">>

\* The rows of the discharge phase that make a Discharge Plan: Discharge Plan
\* header bullet: the label is Discharge Plan and the content begins with the
\* words Discharge Plan.
HeaderBulletRows ==
  { r \in RowsOf("discharge") :
      /\ Lower(sectionsRaw[r].label) = <<"discharge plan">>
      /\ StartsWith(Lower(sectionsRaw[r].content), <<"discharge plan">>)
      /\ (Len(sectionsRaw[r].content) = 1 \/ sectionsRaw[r].content[2] \in NonWordStart) }

\* The weight the claim gives to the section of a phase other than back_home.
StatedWeight(k) ==
  IF k = "patient_info" THEN 0
  ELSE IF k = "discharge"
  THEN Cardinality(RowsOf(k)) - (IF HeaderBulletRows # {} THEN 1 ELSE 0)
  ELSE Cardinality(RowsOf(k))

\* C22: the weight of an event is 0 for patient_info; for discharge it is
\* the count less 1 when the merged content has a Discharge Plan: Discharge
\* Plan header bullet, however many of them there are, and the count
\* otherwise; for home, er and unit it is the count.
EventWeights ==
  \A i \in 1..Len(events) :
    events[i].phase # "back_home" =>
      /\ events[i].value = StatedWeight(events[i].phase)
      /\ eventsWithMeds[i].value = StatedWeight(events[i].phase)

\* A discharge section of three rows, two of them header bullets, weighs 2.
EventWeightsWitness ==
  /\ Cardinality(RowsOf("discharge")) = 3
  /\ Cardinality(HeaderBulletRows) = 2
  /\ events[SectionOf("discharge")].value = 2

\* C23: hasMeds is true only on the merged section of back_home, and only
\* when a row of back_home has a label that starts with Medication or
\* Medications; it is false on every other section, and false on back_home
\* when all its rows are Follow-Up rows.
HasMedsOnlyBackHome ==
  \A i \in 1..Len(sections) :
    /\ sections[i].hasMeds =>
         /\ sections[i].phase = "back_home"
         /\ \E r \in RowsOf("back_home") :
              StartsWith(Lower(sectionsRaw[r].label), <<"medication">>)
    /\ (\A r \in RowsOf(sections[i].phase) :
          StartsWith(Lower(sectionsRaw[r].label), <<"follow">>)) => ~sections[i].hasMeds

\* A note with a Medication assistance row in the unit phase and, in
\* back_home, a Follow-Up row and a Medications row: hasMeds on back_home only.
HasMedsOnlyBackHomeWitness ==
  /\ Len(sectionsRaw) = 3 /\ Len(sections) = 2
  /\ sectionsRaw[1].label = <<"Medication", " assistance">>
  /\ sectionsRaw[2].label = <<"Follow", "-", "Up", " Arrangements">>
  /\ sectionsRaw[3].label = <<"Medication", "s">>
  /\ sections[1].phase = "unit" /\ ~sections[1].hasMeds
  /\ sections[2].phase = "back_home" /\ sections[2].hasMeds

\* C24: the Hospital Management expansion neither drops, duplicates nor
\* reorders lines: the expanded sequence is the sequence of the lines of the
\* note, whether or not lines are absorbed and wherever the absorption stops.
ExpansionKeepsLines ==
  Expand(Lines(rawNote), 1, <<>>) = Lines(rawNote)

\* A note of a Hospital Management header, a line with a colon, which is
\* absorbed, and a Discharge Plan line, which stops the absorption, has gone
\* through the section builder.
ExpansionKeepsLinesWitness ==
  /\ Len(Lines(rawNote)) = 3
  /\ Lines(rawNote)[1] = <<"Hospital Management", ":">>
  /\ HasColon(Lines(rawNote)[2])
  /\ Lines(rawNote)[3] = <<"Discharge Plan">>
  /\ Absorb(Lines(rawNote), 2, <<Lines(rawNote)[1]>>, 1).i = 2
  /\ Len(sectionsRaw) = 3

\* Line i is taken as the content of a Most Responsible Diagnosis row: the
\* line before it is such a header and is not taken so itself.
RECURSIVE ConsumedAt(_, _)
ConsumedAt(lines, i) ==
  /\ i > 1 /\ i <= Len(lines)
  /\ Lower(lines[i - 1]) = <<"most responsible diagnosis">>
  /\ ~ConsumedAt(lines, i - 1)

\* Line i is attached to the previous row.
AttachedAt(lines, i) == i > 1 /\ ConsultLine(lines[i]) /\ ~ConsumedAt(lines, i)

\* The lines that have a row of their own, in order.
OwnLines(lines) ==
  SelectSeq([i \in 1..Len(lines) |-> [at |-> i, line |-> lines[i]]],
            LAMBDA x : ~ConsumedAt(lines, x.at) /\ ~AttachedAt(lines, x.at))

\* The text of a line before its first colon, the line when it has none.
LabelOf(l) ==
  IF \E i \in 2..Len(l) : l[i] = ":" /\ l[1] # ":"
  THEN Trim(SubSeq(l, 1, (CHOOSE i \in 2..Len(l) :
                           l[i] = ":" /\ \A j \in 1..(i - 1) : l[j] # ":") - 1))
  ELSE l

\* C25: every non-empty line of the note contributes to exactly one row, as
\* the label and content of the row, as the content taken by the Most
\* Responsible Diagnosis row before it, or as text attached to the previous
\* row: the number of rows is the number of lines less the lines taken and
\* the lines attached, and the rows stand for the other lines in order.
LinesToRows ==
  \E lines \in {Lines(rawNote)} :
    \E own \in {OwnLines(lines)} :
      /\ Len(sectionsRaw) =
           Len(lines) - Cardinality({i \in 1..Len(lines) : ConsumedAt(lines, i)})
                      - Cardinality({i \in 1..Len(lines) : AttachedAt(lines, i)})
      /\ Len(own) = Len(sectionsRaw)
      /\ \A r \in 1..Len(own) :
           /\ sectionsRaw[r].label = LabelOf(own[r].line)
           /\ ConsumedAt(lines, own[r].at + 1) =>
                StartsWith(sectionsRaw[r].content, WithoutDash(lines[own[r].at + 1]))
           /\ (own[r].at < Len(lines) /\ AttachedAt(lines, own[r].at + 1)) =>
                EndsWith(sectionsRaw[r].content,
                         <<" ">> \o lines[IF r < Len(own) THEN own[r + 1].at - 1 ELSE Len(lines)])

\* A note of three lines with one row: a header, the line it takes, and an
\* attached line.
LinesToRowsWitness ==
  /\ Len(Lines(rawNote)) = 3
  /\ Len(sectionsRaw) = 1
  /\ ConsumedAt(Lines(rawNote), 2)
  /\ AttachedAt(Lines(rawNote), 3)
  /\ sectionsRaw[1].content =
       <<"pneumonia", " ", "Consult to ", "Social work", " arranged">>

\* C26: when patientNumber changes while an earlier fetch is in flight, then
\* once every fetch has settled rawNote is the note of the patient selected
\* last, in whatever order the responses arrive.
LastSelectedWins ==
  (selections > 0 /\ inFlight = <<>>) => rawNote = Trim(note)

\* The fields the two parsers have in common.
Common(secs) ==
  [i \in 1..Len(secs) |->
     [id |-> secs[i].id, phase |-> secs[i].phase, label |-> secs[i].label,
      content |-> secs[i].content, count |-> secs[i].count]]

\* C27: the parser of the export and the parser of the hook agree: once the
\* hook holds the text of the note, parseSectionsFromText of the note as it
\* was fetched yields the sections of the hook, in the same order, with the
\* same id, phase, label, content and count.
ParsersAgree ==
  rawNote = Trim(note) => parseSectionsFromText(note) = Common(sections)

ParsersAgreeWitness ==
  /\ rawNote = Trim(note)
  /\ Len(sections) >= 4
  /\ \E i \in 1..Len(sections) : sections[i].phase = "patient_info" /\ sections[i].count = 0
  /\ \E i \in 1..Len(sections) : sections[i].hasMeds
  /\ parseSectionsFromText(note) = Common(sections)

\* C28: readiness never decreases during the stay: in every pair of
\* consecutive rows of the readiness grid the score of the later day is, for
\* every domain, at least the score of the earlier day.
ReadinessNeverFalls ==
  \A i \in 1..(Len(readinessGrid) - 1) : \A f \in Domains :
     readinessGrid[i + 1][f] >= readinessGrid[i][f]

\* A stay of at least four days in which a domain goes from 0 to 2 or more
\* and a domain rises twice.
ReadinessNeverFallsWitness ==
  /\ Len(readinessGrid) >= 4
  /\ \E f \in Domains :
        readinessGrid[1][f] = 0 /\ readinessGrid[Len(readinessGrid)][f] >= 2
  /\ \E f \in Domains : \E i \in 1..(Len(readinessGrid) - 1) :
        /\ readinessGrid[i][f] < readinessGrid[i + 1][f]
        /\ readinessGrid[i + 1][f] < readinessGrid[Len(readinessGrid)][f]

\* The dates of the fixed month table, as the extractors write them.
RealDateStrings == {DateString(md[1], md[2]) : md \in RealDays}

\* Every Date of both grids is a day of the fixed month table.
AllDatesReal ==
  /\ \A i \in 1..Len(riskGrid) : riskGrid[i].Date \in RealDateStrings
  /\ \A i \in 1..Len(readinessGrid) : readinessGrid[i].Date \in RealDateStrings

\* C29 as stated: every Date of both grids is a day of the fixed month
\* table, whatever the admission and the discharge that were parsed.
DatesAreRealDaysAsStated == AllDatesReal

\* C29: when the parsed admission is a day of the fixed month table, every
\* Date of both grids is one, whatever the discharge that was parsed.
DatesAreRealDays == IsRealDay(start) => AllDatesReal

\* A stay from 12/30 to the second day of a month 13: the grids hold 12/30
\* and 12/31.
DatesAreRealDaysWitness ==
  /\ pc = "done"
  /\ start = [month |-> 12, day |-> 30] /\ end = [month |-> 13, day |-> 2]
  /\ DatesOf(riskGrid) = <<"12/30", "12/31">>
  /\ DatesOf(readinessGrid) = <<"12/30", "12/31">>

\* C30: in a risk grid that is not empty the score of the last row is, for
\* every domain, at most the score of the first row.
LastRiskNotAboveFirst ==
  riskGrid # <<>> =>
    \A f \in Domains : riskGrid[Len(riskGrid)][f] <= riskGrid[1][f]

\* A finished run of two days or more in which a domain begins below 3 and
\* ends above 0, lower than it began.
LastRiskNotAboveFirstWitness ==
  /\ pc = "done"
  /\ Len(riskGrid) >= 2
  /\ \E f \in Domains :
        /\ riskGrid[1][f] < 30
        /\ riskGrid[Len(riskGrid)][f] > 0
        /\ riskGrid[Len(riskGrid)][f] < riskGrid[1][f]

====
